---- MODULE Spec2Model ----
(***************************************************************************)
(* A model of the analytics core of The RC Report:                         *)
(*   - the analytics loader and its module-level cache (src/sw.js),        *)
(*   - the store write handlers that feed it (src/sw.js, src/db.js),       *)
(*   - the setup normalizer (src/db.js), the structural diff engine        *)
(*     (diff.js, kept in src/TODO.md) and the setup-change correlator      *)
(*     (src/sw.js),                                                        *)
(*   - the lap parser, the date range test and the aggregator (stats.js,   *)
(*     kept in src/unnamed/part_001) and the time-input parser             *)
(*     (src/sw.js),                                                        *)
(*   - the insight cards, the form handlers with their time stamps and     *)
(*     the backup import (src/sw.js),                                      *)
(*   - the opening of the database with its retries (src/db.js),           *)
(*   - the service worker's install, activate and fetch listeners          *)
(*     (src/sw.js, lines 1-106).                                           *)
(*                                                                         *)
(* JavaScript values are tagged records: undefined, null, strings (tuples  *)
(* of one-character strings, so that trimming and parsing work on the      *)
(* characters), numbers (integers counting thousandths) and plain objects  *)
(* (their keys in insertion order, and a function from key to value).      *)
(* Records of the stores are functions from field name to value.           *)
(***************************************************************************)
EXTENDS Integers, Sequences, FiniteSets, TLC

VARIABLES
    db,                 \* IndexedDB: store name -> (key -> record)
    analyticsDataCache, \* src/sw.js:132, Null or the cached snapshot
    pc,                 \* per caller of loadAnalyticsData: "idle" | "reading"
    seen,               \* per caller: what its five getAll transactions observe
    returned,           \* the last return of loadAnalyticsData: how, what; and
                        \* (ghost) whether it replaced a snapshot read later
    cacheAt,            \* ghost: the value of writes the cached snapshot was read at
    maint,              \* position of handleDeleteUserData / handleResetApp
    writes,             \* number of store writes done so far (bounds the run)
    fin,                \* input of the pure function under check
    fout                \* its result, NotRun before it ran

cacheVars == <<db, analyticsDataCache, cacheAt, pc, seen, returned, maint, writes>>
funVars == <<fin, fout>>
vars == <<db, analyticsDataCache, cacheAt, pc, seen, returned, maint, writes, fin, fout>>

-----------------------------------------------------------------------------
(* Bounds *)

MaxWrites == 1      \* store writes in one run

-----------------------------------------------------------------------------
(* JavaScript values *)

Undefined == [t |-> "undefined"]
Null == [t |-> "null"]
NaN == [t |-> "NaN"]
Str(s) == [t |-> "string", v |-> s]
Num(n) == [t |-> "number", v |-> n]
\* A plain object: k lists its keys in insertion order, v maps them to values.
Obj(k, f) == [t |-> "object", k |-> k, v |-> f]

NotRun == [t |-> "notrun"]
Rejected == [t |-> "rejected"]

IsStr(x) == x.t = "string"
IsNum(x) == x.t = "number"

\* JavaScript truthiness: undefined, null, "", 0 and NaN are falsy.
Truthy(x) ==
    CASE x.t = "undefined" -> FALSE
      [] x.t = "null" -> FALSE
      [] x.t = "NaN" -> FALSE
      [] x.t = "string" -> x.v # <<>>
      [] x.t = "number" -> x.v # 0
      [] OTHER -> TRUE

\* a || b
OrElse(a, b) == IF Truthy(a) THEN a ELSE b

\* obj[key] on a record of a store (a function from field name to value)
Field(rec, key) == IF key \in DOMAIN rec THEN rec[key] ELSE Undefined

\* x[key] on a value that is not null or undefined: a plain object's own
\* property, undefined on anything else.
Get(x, key) == IF x.t = "object" /\ key \in DOMAIN x.v THEN x.v[key] ELSE Undefined

\* Thousandths per unit: numbers are integers counting thousandths.
Scale == 1000

-----------------------------------------------------------------------------
(* parseLap, stats.js *)

IsSpace(c) == c \in {" ", "\t", "\n"}
IsDigit(c) == c \in {"0", "1", "2", "3", "4", "5", "6", "7", "8", "9"}

DigitVal(c) ==
    CASE c = "0" -> 0 [] c = "1" -> 1 [] c = "2" -> 2 [] c = "3" -> 3
      [] c = "4" -> 4 [] c = "5" -> 5 [] c = "6" -> 6 [] c = "7" -> 7
      [] c = "8" -> 8 [] c = "9" -> 9

\* The length of the longest prefix of s whose characters satisfy P.
PrefixLen(s, P(_)) ==
    CHOOSE n \in 0..Len(s) :
        /\ \A i \in 1..n : P(s[i])
        /\ (n = Len(s) \/ ~P(s[n + 1]))

Drop(s, n) == SubSeq(s, n + 1, Len(s))

\* The length of the longest suffix of s whose characters satisfy P.
SuffixLen(s, P(_)) ==
    CHOOSE n \in 0..Len(s) :
        /\ \A i \in (Len(s) - n + 1)..Len(s) : P(s[i])
        /\ (n = Len(s) \/ ~P(s[Len(s) - n]))

\* String.prototype.trim
Trim(s) ==
    LET rest == Drop(s, PrefixLen(s, IsSpace))
    IN SubSeq(rest, 1, Len(rest) - SuffixLen(rest, IsSpace))

RECURSIVE DigitsVal(_)
DigitsVal(s) ==
    IF s = <<>> THEN 0
    ELSE DigitsVal(SubSeq(s, 1, Len(s) - 1)) * 10 + DigitVal(s[Len(s)])

\* The digits after the point as thousandths (digits past the third are cut).
FracVal(s) ==
    LET d == [i \in 1..3 |-> IF i <= Len(s) THEN DigitVal(s[i]) ELSE 0]
    IN d[1] * 100 + d[2] * 10 + d[3]

\* parseFloat on a string: leading white space is skipped, then the longest
\* prefix [+-]digits[.digits] is read; anything after it is ignored; NaN when
\* there is no digit.  (The strings of this model hold no exponent marker
\* and do not spell Infinity.)
ParseFloat(s) ==
    LET t0 == Drop(s, PrefixLen(s, IsSpace))
        neg == t0 # <<>> /\ t0[1] = "-"
        t1 == IF t0 # <<>> /\ t0[1] \in {"+", "-"} THEN Drop(t0, 1) ELSE t0
        ni == PrefixLen(t1, IsDigit)
        t2 == Drop(t1, ni)
        hasDot == t2 # <<>> /\ t2[1] = "."
        t3 == IF hasDot THEN Drop(t2, 1) ELSE <<>>
        nf == PrefixLen(t3, IsDigit)
        mag == DigitsVal(SubSeq(t1, 1, ni)) * Scale + FracVal(SubSeq(t3, 1, nf))
    IN IF ni = 0 /\ nf = 0 THEN NaN
       ELSE Num(IF neg THEN 0 - mag ELSE mag)

\* isNaN(num) || num <= 0 ? null : num
PositiveOrNull(num) == IF num = NaN \/ (IsNum(num) /\ num.v <= 0) THEN Null ELSE num

parseLap(value) ==
    IF value = Null \/ value = Undefined \/ value = Str(<<>>) THEN Null
    ELSE PositiveOrNull(IF IsStr(value) THEN ParseFloat(value.v) ELSE value)

-----------------------------------------------------------------------------
(* Number.prototype.toFixed(3) on a quotient *)

DigitChar(d) ==
    CASE d = 0 -> "0" [] d = 1 -> "1" [] d = 2 -> "2" [] d = 3 -> "3"
      [] d = 4 -> "4" [] d = 5 -> "5" [] d = 6 -> "6" [] d = 7 -> "7"
      [] d = 8 -> "8" [] d = 9 -> "9"

RECURSIVE NatToDigits(_)
NatToDigits(n) ==
    IF n < 10 THEN <<DigitChar(n)>>
    ELSE Append(NatToDigits(n \div 10), DigitChar(n % 10))

\* (a / b).toFixed(3) for a >= 0 counted in thousandths and an integer b > 0:
\* the quotient rounded to the nearest thousandth, as text.
QuotientToFixed3(a, b) ==
    LET q == (2 * a + b) \div (2 * b)
        f == q % Scale
    IN NatToDigits(q \div Scale)
         \o <<".", DigitChar(f \div 100), DigitChar((f \div 10) % 10), DigitChar(f % 10)>>

-----------------------------------------------------------------------------
(* The stores, src/db.js *)

StoreNames == {"cars", "events", "runLogs", "tracks", "setups"}

CarId1 == <<"c", "1">>
EventId1 == <<"e", "1">>
RunId1 == <<"r", "1">>
TrackId1 == <<"t", "1">>
SetupId1 == <<"s", "1">>

\* The keys generateId can hand out, per store, in key order.
KeySeq(store) ==
    CASE store = "cars" -> <<Str(CarId1)>>
      [] store = "events" -> <<Str(EventId1)>>
      [] store = "runLogs" -> <<Str(RunId1)>>
      [] store = "tracks" -> <<Str(TrackId1)>>
      [] store = "setups" -> <<Str(SetupId1)>>

Range(s) == {s[i] : i \in 1..Len(s)}

EmptyStore == [k \in {} |-> Undefined]
EmptyDb == [s \in StoreNames |-> EmptyStore]

\* getAll(store): the records of one store content, in key order.
RECURSIVE RecordsInKeyOrder(_, _)
RecordsInKeyOrder(content, keys) ==
    IF keys = <<>> THEN <<>>
    ELSE (IF keys[1] \in DOMAIN content THEN <<content[keys[1]]>> ELSE <<>>)
           \o RecordsInKeyOrder(content, Tail(keys))

getAll(database, store) == RecordsInKeyOrder(database[store], KeySeq(store))

\* put(store, item): insert or replace under item.id.
put(database, store, item) ==
    [database EXCEPT ![store] =
        [k \in DOMAIN database[store] \cup {item.id} |->
            IF k = item.id THEN item ELSE database[store][k]]]

\* remove(store, id)
remove(database, store, id) ==
    [database EXCEPT ![store] =
        [k \in DOMAIN database[store] \ {id} |-> database[store][k]]]

\* clearAllStores(), and what deleteDatabase followed by dbInit leaves.
clearAllStores(database) == EmptyDb

-----------------------------------------------------------------------------
(* The analytics loader, src/sw.js *)

Callers == {"carDetail", "trackDetail", "analytics"}

\* new Map(records.map(r => [r.id, r])).get(id): the last record with that
\* id, undefined when there is none.
MapGet(records, id) ==
    LET hits == {i \in 1..Len(records) : Field(records[i], "id") = id}
    IN IF hits = {} THEN Undefined
       ELSE records[CHOOSE i \in hits : \A j \in hits : j <= i]

\* new Map(records.map(r => [r.id, r]))
MapById(records) ==
    [id \in {Field(records[i], "id") : i \in 1..Len(records)} |-> MapGet(records, id)]

\* Mutant: trackId: event?.trackId, without the fallback to null.
EnrichRun_noNullFallback(run, events) ==
    LET event == MapGet(events, Field(run, "eventId"))
        trackId == IF event = Undefined THEN Undefined ELSE Field(event, "trackId")
        extra == [eventDate |-> IF event # Undefined THEN Field(event, "date") ELSE Null,
                  trackId |-> trackId,
                  bestLapNum |-> parseLap(Field(run, "bestLap")),
                  avgLapNum |-> parseLap(Field(run, "avgLap"))]
    IN [k \in DOMAIN run \cup DOMAIN extra |->
           IF k \in DOMAIN extra THEN extra[k] ELSE run[k]]

\* { ...run, eventDate, trackId, bestLapNum, avgLapNum }
EnrichRun(run, events) ==
    LET event == MapGet(events, Field(run, "eventId"))
        trackId == IF event = Undefined THEN Null
                   ELSE OrElse(Field(event, "trackId"), Null)
        extra == [eventDate |-> IF event # Undefined THEN Field(event, "date") ELSE Null,
                  trackId |-> trackId,
                  bestLapNum |-> parseLap(Field(run, "bestLap")),
                  avgLapNum |-> parseLap(Field(run, "avgLap"))]
    IN [k \in DOMAIN run \cup DOMAIN extra |->
           IF k \in DOMAIN extra THEN extra[k] ELSE run[k]]

\* runLogs.map(run => ...)
EnrichRuns(runLogs, events) ==
    [i \in 1..Len(runLogs) |-> EnrichRun(runLogs[i], events)]

\* The snapshot a load builds from the five getAll results.
BuildSnapshot(cars, events, runLogs, tracks, setups) ==
    [cars |-> cars, events |-> events, runLogs |-> runLogs,
     tracks |-> tracks, setups |-> setups,
     carsById |-> MapById(cars), tracksById |-> MapById(tracks),
     eventsById |-> MapById(events), setupsById |-> MapById(setups),
     enrichedRuns |-> EnrichRuns(runLogs, events)]

SnapshotOf(database) ==
    BuildSnapshot(getAll(database, "cars"), getAll(database, "events"),
                  getAll(database, "runLogs"), getAll(database, "tracks"),
                  getAll(database, "setups"))

NoData == [at |-> 0]
NoReturn == [kind |-> "none", value |-> NotRun, olderWon |-> FALSE]

\* Mutant: the cache expires once a store was written after it was read.
loadAnalyticsData_expiring(p, forceRefresh) ==
    /\ pc[p] = "idle"
    /\ IF ~forceRefresh /\ analyticsDataCache # Null /\ cacheAt = writes
       THEN /\ returned' = [kind |-> "hit", value |-> analyticsDataCache,
                            olderWon |-> FALSE]
            /\ UNCHANGED <<pc, seen>>
       ELSE /\ pc' = [pc EXCEPT ![p] = "reading"]
            /\ seen' = [seen EXCEPT ![p] = [at |-> writes, data |-> db]]
            /\ UNCHANGED returned
    /\ UNCHANGED <<db, analyticsDataCache, cacheAt, maint, writes, funVars>>

\* Mutant: single-flight, a miss while a load is in flight waits for that
\* load instead of reading the stores itself.
loadAnalyticsData_singleFlight(p, forceRefresh) ==
    /\ pc[p] = "idle"
    /\ IF ~forceRefresh /\ analyticsDataCache # Null
       THEN /\ returned' = [kind |-> "hit", value |-> analyticsDataCache,
                            olderWon |-> FALSE]
            /\ UNCHANGED <<pc, seen>>
       ELSE IF \E q \in Callers : pc[q] = "reading"
       THEN /\ returned' = [kind |-> "joined", value |-> NotRun, olderWon |-> FALSE]
            /\ UNCHANGED <<pc, seen>>
       ELSE /\ pc' = [pc EXCEPT ![p] = "reading"]
            /\ seen' = [seen EXCEPT ![p] = [at |-> writes, data |-> db]]
            /\ UNCHANGED returned
    /\ UNCHANGED <<db, analyticsDataCache, cacheAt, maint, writes, funVars>>

\* loadAnalyticsData({forceRefresh}) up to its await: a cache hit returns the
\* cache; otherwise the five getAll read transactions are created together,
\* in one turn of the event loop, so they observe the stores as they are now.
loadAnalyticsData(p, forceRefresh) ==
    /\ pc[p] = "idle"
    /\ IF ~forceRefresh /\ analyticsDataCache # Null
       THEN /\ returned' = [kind |-> "hit", value |-> analyticsDataCache,
                            olderWon |-> FALSE]
            /\ UNCHANGED <<pc, seen>>
       ELSE /\ pc' = [pc EXCEPT ![p] = "reading"]
            /\ seen' = [seen EXCEPT ![p] = [at |-> writes, data |-> db]]
            /\ UNCHANGED returned
    /\ UNCHANGED <<db, analyticsDataCache, cacheAt, maint, writes, funVars>>

\* Mutant: a completing load does not replace a snapshot read after its own.
loadResolve_keepsNewer(p) ==
    /\ pc[p] = "reading"
    /\ IF analyticsDataCache # Null /\ seen[p].at < cacheAt
       THEN UNCHANGED <<analyticsDataCache, cacheAt>>
       ELSE /\ analyticsDataCache' = SnapshotOf(seen[p].data)
            /\ cacheAt' = seen[p].at
    /\ returned' = [kind |-> "load", value |-> analyticsDataCache', olderWon |-> FALSE]
    /\ pc' = [pc EXCEPT ![p] = "idle"]
    /\ seen' = [seen EXCEPT ![p] = NoData]
    /\ UNCHANGED <<db, maint, writes, funVars>>

\* Promise.all fulfilled: the rest of loadAnalyticsData runs to its return.
loadResolve(p) ==
    /\ pc[p] = "reading"
    /\ analyticsDataCache' = SnapshotOf(seen[p].data)
    /\ cacheAt' = seen[p].at
    /\ returned' = [kind |-> "load", value |-> analyticsDataCache',
                    olderWon |-> analyticsDataCache # Null /\ seen[p].at < cacheAt]
    /\ pc' = [pc EXCEPT ![p] = "idle"]
    /\ seen' = [seen EXCEPT ![p] = NoData]
    /\ UNCHANGED <<db, maint, writes, funVars>>

\* Mutant: a failed load drops the cache.
loadReject_clearsCache(p) ==
    /\ pc[p] = "reading"
    /\ analyticsDataCache' = Null
    /\ returned' = [kind |-> "throw", value |-> Rejected, olderWon |-> FALSE]
    /\ pc' = [pc EXCEPT ![p] = "idle"]
    /\ seen' = [seen EXCEPT ![p] = NoData]
    /\ UNCHANGED <<db, cacheAt, maint, writes, funVars>>

\* One of the five getAll promises rejected: the await throws.
loadReject(p) ==
    /\ pc[p] = "reading"
    /\ returned' = [kind |-> "throw", value |-> Rejected, olderWon |-> FALSE]
    /\ pc' = [pc EXCEPT ![p] = "idle"]
    /\ seen' = [seen EXCEPT ![p] = NoData]
    /\ UNCHANGED <<db, analyticsDataCache, cacheAt, maint, writes, funVars>>

\* No function of the program calls it.
invalidateAnalyticsDataCache ==
    /\ analyticsDataCache' = Null
    /\ UNCHANGED <<db, cacheAt, pc, seen, returned, maint, writes, funVars>>

\* The three call sites.  renderCarDetailPage: loadAnalyticsData().
renderCarDetailPage == loadAnalyticsData("carDetail", FALSE)

\* renderTrackDetailPage: loadAnalyticsData({ forceRefresh: false }).
renderTrackDetailPage == loadAnalyticsData("trackDetail", FALSE)

\* renderAnalyticsPage({useCache}):
\* loadAnalyticsData({ forceRefresh: !(useCache && analyticsDataCache) }).
renderAnalyticsPage ==
    \E useCache \in BOOLEAN :
        loadAnalyticsData("analytics", ~(useCache /\ analyticsDataCache # Null))

-----------------------------------------------------------------------------
(* Plain objects and the setup normalizer, src/db.js *)

\* Marks a key that an object literal leaves out.
Absent == [t |-> "absent"]

Present(pairs) == SelectSeq(pairs, LAMBDA p : p[2] # Absent)

\* { k1: v1, k2: v2, ... } for a sequence of <<key, value>> pairs
MkObj(pairs) ==
    LET ps == Present(pairs)
    IN Obj([i \in 1..Len(ps) |-> ps[i][1]],
           [k \in {ps[i][1] : i \in 1..Len(ps)} |->
               ps[CHOOSE i \in 1..Len(ps) : ps[i][1] = k][2]])

\* A record of a store with the listed fields.
MkRec(pairs) ==
    LET ps == Present(pairs)
    IN [k \in {ps[i][1] : i \in 1..Len(ps)} |->
           ps[CHOOSE i \in 1..Len(ps) : ps[i][1] = k][2]]

GroupNames == <<"chassis", "suspension", "drivetrain", "tires", "electronics", "general">>

LeafNames(g) ==
    CASE g = "chassis" ->
           <<"rideHeightF", "rideHeightR", "droopF", "droopR", "weightBalanceNotes">>
      [] g = "suspension" ->
           <<"springsF", "springsR", "pistonsF", "pistonsR", "shockOilF", "shockOilR",
             "shockPosF", "shockPosR", "camberF", "camberR", "toeF", "toeR">>
      [] g = "drivetrain" ->
           <<"pinion", "spur", "fdrNotes", "diffType", "diffOilF", "diffOilR",
             "centerDiffOil">>
      [] g = "tires" ->
           <<"tireBrand", "tireCompound", "insert", "sauce", "prepNotes">>
      [] g = "electronics" ->
           <<"escProfile", "timing", "punch", "motorNotes">>
      [] g = "general" ->
           <<"trackCondition", "temp", "notes">>

\* Mutant: group.leaf, without the default.
NormLeaf_noDefault(group, leaf) == Get(group, leaf)

\* Mutant: the front and rear ride heights read each other's key.
NormLeaf_swapsFrontRear(group, leaf) ==
    OrElse(Get(group, IF leaf = "rideHeightF" THEN "rideHeightR"
                      ELSE IF leaf = "rideHeightR" THEN "rideHeightF" ELSE leaf),
           Str(<<>>))

\* group.leaf || ''
NormLeaf(group, leaf) == OrElse(Get(group, leaf), Str(<<>>))

\* The legacy flat field that feeds a canonical slot, undefined for the
\* slots that have none.
LegacyField(data, g, l) ==
    CASE g = "chassis" /\ l = "rideHeightF" -> Get(data, "rideHeight")
      [] g = "suspension" /\ l = "springsF" -> Get(data, "springs")
      [] g = "suspension" /\ l = "shockOilF" -> Get(data, "shockOil")
      [] OTHER -> Undefined

\* Mutant: a legacy field overwrites a populated canonical slot.
normalizeSetupData_legacyWins(setup) ==
    LET s == IF setup = Undefined THEN MkRec(<<>>) ELSE setup
        data == OrElse(Field(s, "setupData"), MkObj(<<>>))
        schema == OrElse(Field(s, "setupSchemaVersion"), Num(1 * Scale))
        group(g) == OrElse(Get(data, g), MkObj(<<>>))
        norm(g, l) == NormLeaf(group(g), l)
        legacy(g, l) == LegacyField(data, g, l)
        leaf(g, l) ==
            IF schema.v < 2 * Scale /\ Truthy(legacy(g, l))
            THEN legacy(g, l) ELSE norm(g, l)
    IN Obj(GroupNames,
           [g \in Range(GroupNames) |->
               Obj(LeafNames(g), [l \in Range(LeafNames(g)) |-> leaf(g, l)])])

normalizeSetupData(setup) ==
    LET s == IF setup = Undefined THEN MkRec(<<>>) ELSE setup
        data == OrElse(Field(s, "setupData"), MkObj(<<>>))
        schema == OrElse(Field(s, "setupSchemaVersion"), Num(1 * Scale))
        group(g) == OrElse(Get(data, g), MkObj(<<>>))
        norm(g, l) == NormLeaf(group(g), l)
        legacy(g, l) == LegacyField(data, g, l)
        leaf(g, l) ==
            IF schema.v < 2 * Scale /\ Truthy(legacy(g, l)) /\ ~Truthy(norm(g, l))
            THEN legacy(g, l) ELSE norm(g, l)
    IN Obj(GroupNames,
           [g \in Range(GroupNames) |->
               Obj(LeafNames(g), [l \in Range(LeafNames(g)) |-> leaf(g, l)])])

-----------------------------------------------------------------------------
(* The save and delete handlers, src/sw.js.  Each builds its record from    *)
(* the form, awaits one put or remove and re-renders a page; none of them   *)
(* touches analyticsDataCache.  A failed put or remove changes nothing.     *)
(* Only the fields the analytics loader reads, and one free-text field per  *)
(* store, are carried.                                                      *)

NameA == Str(<<"A">>)
NameB == Str(<<"B">>)
Date1 == Str(<<"2", "0", "2", "4", "-", "0", "5", "-", "0", "1">>)
Date2 == Str(<<"2", "0", "2", "4", "-", "0", "5", "-", "0", "2">>)

CarForms == {[name |-> n] : n \in {NameA, NameB}}
TrackForms == {[name |-> n] : n \in {NameA, NameB}}
EventForms == {[trackId |-> Str(TrackId1), date |-> d] : d \in {Date1, Date2}}
\* The setup form: the version label and the front springs are filled in,
\* the other setup fields are left empty.
SetupForms ==
    {[carId |-> Str(CarId1), versionLabel |-> NameA,
      springsF |-> Str(<<" ", "4", ".", "4">>)],
     [carId |-> Str(CarId1), versionLabel |-> NameB,
      springsF |-> Str(<<"4", ".", "6">>)]}
\* time: what parseTimeInputToSeconds made of the time field; totalLaps:
\* what parseInt made of the laps field, null when the field is empty.
RunLogForms ==
    {[eventId |-> Str(EventId1), carId |-> Str(CarId1), bestLap |-> b,
      time |-> tm, totalLaps |-> n] :
        b \in {Str(<<"9", ".", "5">>), Str(<<"9", ".", "1">>)},
        tm \in {Null, Num(19 * Scale)},
        n \in {Null, Num(2 * Scale)}}

\* The hidden id field of a form: empty for a new record (generateId then
\* hands out a key the store does not hold), the record's id on an edit.
FormIds(store) ==
    {Str(<<>>)} \cup (DOMAIN db[store])

FreshKeys(store) == Range(KeySeq(store)) \ DOMAIN db[store]

\* id || generateId(prefix)
IdFor(store, id, fresh) == IF Truthy(id) THEN id ELSE fresh

WithId(rec, id) ==
    [k \in DOMAIN rec \cup {"id"} |-> IF k = "id" THEN id ELSE rec[k]]

Write(database) ==
    /\ writes < MaxWrites
    /\ db' = database
    /\ writes' = writes + 1
    /\ UNCHANGED <<analyticsDataCache, cacheAt, pc, seen, returned, maint, funVars>>

handleCarSubmit ==
    \E id \in FormIds("cars"), form \in CarForms, fresh \in FreshKeys("cars") \cup {Undefined} :
        /\ Truthy(id) \/ fresh # Undefined
        /\ Write(put(db, "cars", WithId(form, IdFor("cars", id, fresh))))

deleteCar ==
    \E id \in DOMAIN db["cars"] : Write(remove(db, "cars", id))

handleTrackSubmit ==
    \E id \in FormIds("tracks"), form \in TrackForms, fresh \in FreshKeys("tracks") \cup {Undefined} :
        /\ Truthy(id) \/ fresh # Undefined
        /\ Write(put(db, "tracks", WithId(form, IdFor("tracks", id, fresh))))

deleteTrack ==
    \E id \in DOMAIN db["tracks"] : Write(remove(db, "tracks", id))

handleEventSubmit ==
    \E id \in FormIds("events"), form \in EventForms, fresh \in FreshKeys("events") \cup {Undefined} :
        /\ Truthy(id) \/ fresh # Undefined
        /\ Write(put(db, "events", WithId(form, IdFor("events", id, fresh))))

deleteEvent ==
    \E id \in DOMAIN db["events"] : Write(remove(db, "events", id))

\* The record handleSetupSubmit writes: every field of the form trimmed.
SetupRecord(form, id) ==
    [id |-> id, carId |-> form.carId,
     versionLabel |-> Str(Trim(form.versionLabel.v)),
     setupSchemaVersion |-> Num(2 * Scale),
     setupData |->
        Obj(GroupNames,
            [g \in Range(GroupNames) |->
                Obj(LeafNames(g),
                    [l \in Range(LeafNames(g)) |->
                        IF g = "suspension" /\ l = "springsF"
                        THEN Str(Trim(form.springsF.v)) ELSE Str(Trim(<<>>))])])]

handleSetupSubmit ==
    \E id \in FormIds("setups"), form \in SetupForms, fresh \in FreshKeys("setups") \cup {Undefined} :
        /\ Truthy(id) \/ fresh # Undefined
        /\ Write(put(db, "setups", SetupRecord(form, IdFor("setups", id, fresh))))

deleteSetup ==
    \E id \in DOMAIN db["setups"] : Write(remove(db, "setups", id))

\* The record handleRunLogSubmit writes, for a form that passed validation.
RunLogData(form, id) ==
    [id |-> id, eventId |-> form.eventId, carId |-> form.carId,
     bestLap |-> form.bestLap,
     avgLap |-> Str(QuotientToFixed3(form.time.v, form.totalLaps.v \div Scale)),
     totalLaps |-> form.totalLaps, time |-> form.time]

handleRunLogSubmit ==
    \E id \in FormIds("runLogs"), form \in RunLogForms, fresh \in FreshKeys("runLogs") \cup {Undefined} :
        /\ Truthy(id) \/ fresh # Undefined
        /\ form.time # Null
        /\ IsNum(form.totalLaps) /\ form.totalLaps.v > 0
        /\ Write(put(db, "runLogs", RunLogData(form, IdFor("runLogs", id, fresh))))

deleteRunLog ==
    \E id \in DOMAIN db["runLogs"] : Write(remove(db, "runLogs", id))

-----------------------------------------------------------------------------
(* The data reset handlers, src/sw.js *)

\* handleDeleteUserData up to its await: clearAllStores empties every store.
handleDeleteUserData ==
    /\ maint = "idle"
    /\ writes < MaxWrites
    /\ db' = clearAllStores(db)
    /\ writes' = writes + 1
    /\ maint' = "deleteUserData"
    /\ UNCHANGED <<analyticsDataCache, cacheAt, pc, seen, returned, funVars>>

\* ... and after it: the cache is dropped.
deleteUserDataDone ==
    /\ maint = "deleteUserData"
    /\ analyticsDataCache' = Null
    /\ maint' = "idle"
    /\ UNCHANGED <<db, cacheAt, pc, seen, returned, writes, funVars>>

\* handleResetApp up to its first await: resetDatabase drops the database.
handleResetApp ==
    /\ maint = "idle"
    /\ writes < MaxWrites
    /\ db' = EmptyDb
    /\ writes' = writes + 1
    /\ maint' = "resetApp"
    /\ UNCHANGED <<analyticsDataCache, cacheAt, pc, seen, returned, funVars>>

\* ... after it: the cache is dropped, dbInit recreates the stores and a
\* reload is scheduled.
resetAppDone ==
    /\ maint = "resetApp"
    /\ analyticsDataCache' = Null
    /\ maint' = "reload"
    /\ UNCHANGED <<db, cacheAt, pc, seen, returned, writes, funVars>>

\* window.location.reload(): the module is loaded afresh; the stores stay.
reloadPage ==
    /\ maint = "reload"
    /\ analyticsDataCache' = Null
    /\ pc' = [p \in Callers |-> "idle"]
    /\ seen' = [p \in Callers |-> NoData]
    /\ returned' = NoReturn
    /\ cacheAt' = 0
    /\ maint' = "idle"
    /\ UNCHANGED <<db, writes, funVars>>

-----------------------------------------------------------------------------
(* The program: a fresh page over stores left by earlier sessions, either  *)
(* empty or holding one record each; the cache starts null.                *)

StoredDb ==
    [s \in StoreNames |->
        CASE s = "cars" -> Str(CarId1) :> WithId(CHOOSE f \in CarForms : f.name = NameA, Str(CarId1))
          [] s = "tracks" -> Str(TrackId1) :> WithId(CHOOSE f \in TrackForms : f.name = NameA, Str(TrackId1))
          [] s = "events" -> Str(EventId1) :> WithId(CHOOSE f \in EventForms : f.date = Date1, Str(EventId1))
          [] s = "setups" -> Str(SetupId1) :> SetupRecord(CHOOSE f \in SetupForms : f.versionLabel = NameA, Str(SetupId1))
          [] s = "runLogs" -> Str(RunId1) :>
                RunLogData(CHOOSE f \in RunLogForms :
                               /\ f.bestLap = Str(<<"9", ".", "5">>)
                               /\ f.time # Null /\ f.totalLaps # Null,
                           Str(RunId1))]

Init ==
    /\ db \in {EmptyDb, StoredDb}
    /\ analyticsDataCache = Null
    /\ pc = [p \in Callers |-> "idle"]
    /\ seen = [p \in Callers |-> NoData]
    /\ returned = NoReturn
    /\ cacheAt = 0
    /\ maint = "idle"
    /\ writes = 0
    /\ fin = NotRun
    /\ fout = NotRun

Next ==
    \/ renderCarDetailPage
    \/ renderTrackDetailPage
    \/ renderAnalyticsPage
    \/ \E p \in Callers : loadResolve(p)
    \/ \E p \in Callers : loadReject(p)
    \/ handleCarSubmit
    \/ deleteCar
    \/ handleTrackSubmit
    \/ deleteTrack
    \/ handleEventSubmit
    \/ deleteEvent
    \/ handleSetupSubmit
    \/ deleteSetup
    \/ handleRunLogSubmit
    \/ deleteRunLog
    \/ handleDeleteUserData
    \/ deleteUserDataDone
    \/ handleResetApp
    \/ resetAppDone
    \/ reloadPage

Spec == Init /\ [][Next]_vars

-----------------------------------------------------------------------------
(* Claims about the analytics cache, checked under Spec *)

Reading == {p \in Callers : pc[p] = "reading"}
Stale == analyticsDataCache # Null /\ analyticsDataCache # SnapshotOf(db)

\* C1: after a completed create, update or delete done through a save or
\* delete handler, a call without forceRefresh from the car detail or the
\* track detail page returns a snapshot of the stores as they are now, never
\* the snapshot cached before the write.
C1_CallReturnsCurrentStores ==
    [][(renderCarDetailPage \/ renderTrackDetailPage) /\ analyticsDataCache # Null
          => returned'.value = SnapshotOf(db)]_vars

\* C2: while the cache is non-null a call with forceRefresh = false returns
\* the cached snapshot itself and starts no store read; and the cache value
\* changes only when a load completes (to that load's snapshot) or when
\* handleDeleteUserData or handleResetApp clears it: nothing else, and no
\* passing of time, drops or replaces it.
C2_MemoizedUntilCleared ==
    [][/\ \A p \in Callers :
            loadAnalyticsData(p, FALSE) /\ analyticsDataCache # Null
              => /\ returned'.kind = "hit"
                 /\ returned'.value = analyticsDataCache
                 /\ UNCHANGED <<analyticsDataCache, pc, seen, db>>
       /\ analyticsDataCache' # analyticsDataCache
              => \/ \E p \in Reading :
                       /\ pc'[p] = "idle"
                       /\ analyticsDataCache' = SnapshotOf(seen[p].data)
                 \/ /\ analyticsDataCache' = Null
                    /\ maint \in {"deleteUserData", "resetApp", "reload"}
                    /\ maint' # maint]_vars

\* C2's case: a call was answered from the cache although the stores have
\* been written since the snapshot was read.
C2_Witness ==
    /\ returned.kind = "hit"
    /\ returned.value = analyticsDataCache
    /\ analyticsDataCache # Null
    /\ cacheAt < writes

\* C3: loads in flight together are not coordinated: the completion of a
\* load puts that load's snapshot in the cache and returns it, whatever the
\* other loads did meanwhile, also over a snapshot that was read later; and
\* it leaves the other loads in flight.
C3_LastCompletionWins ==
    [][\A p \in Reading :
          pc'[p] = "idle" /\ returned'.kind = "load"
                => /\ analyticsDataCache' = SnapshotOf(seen[p].data)
                   /\ returned'.value = analyticsDataCache'
                   /\ \A q \in Reading \ {p} :
                         pc'[q] = "reading" /\ seen'[q] = seen[q]]_vars

\* C3's case: the load that completed last had read the stores before the
\* load whose snapshot it replaced, and the cache now holds its older view.
C3_Witness ==
    /\ returned.kind = "load"
    /\ returned.olderWon
    /\ returned.value = analyticsDataCache
    /\ Stale

\* C4 as stated: at most one store load is in progress at any time.
C4_SingleFlight == Cardinality(Reading) <= 1

\* C4 amended: the loader is not single-flight.  A call starts its own read
\* of the stores exactly when forceRefresh is true or the cache is null at
\* the time of the call, whether or not another load is in flight.
C4_EveryMissReads ==
    [][\A p \in Callers, forceRefresh \in BOOLEAN :
          loadAnalyticsData(p, forceRefresh)
            => (pc'[p] = "reading" <=> (forceRefresh \/ analyticsDataCache = Null))]_vars

\* C4's case: two loads in flight on the same cache miss.
C4_Witness ==
    /\ Cardinality(Reading) >= 2
    /\ analyticsDataCache = Null

\* C5: when a getAll fails the call rejects, starts no further read, and
\* neither the call nor its failure changes the cache.
C5_FailureKeepsCache ==
    [][\A p \in Callers :
          /\ loadReject(p)
                => /\ analyticsDataCache' = analyticsDataCache
                   /\ returned'.kind = "throw" /\ returned'.value = Rejected
                   /\ pc'[p] = "idle"
          /\ pc[p] = "idle" /\ pc'[p] = "reading"
                => analyticsDataCache' = analyticsDataCache
          /\ pc[p] = "reading" /\ pc'[p] = "idle" /\ returned'.kind = "throw"
                => analyticsDataCache' = analyticsDataCache]_vars

\* C5's case: a forced refresh failed and the snapshot cached before it is
\* still the cache.
C5_Witness ==
    /\ returned.kind = "throw"
    /\ analyticsDataCache # Null

-----------------------------------------------------------------------------
(* The enrichment step of the loader on its own: the part of                *)
(* loadAnalyticsData after the await, applied to getAll results drawn from  *)
(* bounded sets.                                                            *)

MaxEnrichRuns == 2  \* run logs in one getAll result

EventId2 == <<"e", "2">>
EventId9 == <<"e", "9">>
TrackId2 == <<"t", "2">>

\* The first event, with its trackId present, empty, null or absent, and
\* with or without a date.
Event1Variants ==
    {[id |-> Str(EventId1), trackId |-> tr, date |-> Date1] :
        tr \in {Str(TrackId1), Str(<<>>), Null}}
      \cup {[id |-> Str(EventId1), date |-> Date1],
            [id |-> Str(EventId1), trackId |-> Str(TrackId1)]}

Event2 == [id |-> Str(EventId2), trackId |-> Str(TrackId2), date |-> Date2]

EventLists ==
    {<<>>, <<Event2>>} \cup {<<e>> : e \in Event1Variants}
      \cup {<<e, Event2>> : e \in Event1Variants}

\* A run log without its id: it points at the first event, the second, or
\* at an event that is not stored.
RunBodies ==
    {[eventId |-> Str(ev), carId |-> Str(CarId1), bestLap |-> b, avgLap |-> a] :
        ev \in {EventId1, EventId2, EventId9},
        b \in {Str(<<"9", ".", "5">>), Str(<<"a", "b">>), Num(9 * Scale)},
        a \in {Str(<<"9", ".", "7", "5", "0">>), Str(<<>>)}}

RunKey(i) == Str(<<"r", DigitChar(i)>>)

\* getAll('runLogs') results: up to n records with distinct keys, in key order.
RunLists(bodies, n) ==
    UNION {{[i \in 1..m |-> WithId(f[i], RunKey(i))] : f \in [1..m -> bodies]} : m \in 0..n}

CacheIdle ==
    /\ db = EmptyDb
    /\ analyticsDataCache = Null
    /\ cacheAt = 0
    /\ pc = [p \in Callers |-> "idle"]
    /\ seen = [p \in Callers |-> NoData]
    /\ returned = NoReturn
    /\ maint = "idle"
    /\ writes = 0

InitEnrich ==
    /\ CacheIdle
    /\ \E ev \in EventLists, rl \in RunLists(RunBodies, MaxEnrichRuns) :
          fin = [events |-> ev, runLogs |-> rl]
    /\ fout = NotRun

\* loadAnalyticsData after its await, on these getAll results.
enrich ==
    /\ fout = NotRun
    /\ fout' = BuildSnapshot(<<>>, fin.events, fin.runLogs, <<>>, <<>>)
    /\ UNCHANGED <<fin, cacheVars>>

SpecEnrich == InitEnrich /\ [][enrich]_vars

Enriched == {"eventDate", "trackId", "bestLapNum", "avgLapNum"}

EventsWithId(events, id) == {e \in Range(events) : Field(e, "id") = id}

\* C6: enrichedRuns has one entry per run log, in the same order; each entry
\* carries the fields of its run log plus eventDate (the date of the event
\* with id run.eventId, null without such an event), trackId (that event's
\* trackId, null when the event is missing or has no trackId), bestLapNum and
\* avgLapNum (parseLap of bestLap and avgLap); the run-log records themselves
\* are returned as they were read.
C6_EnrichedRuns ==
    fout # NotRun =>
        /\ fout.runLogs = fin.runLogs
        /\ Len(fout.enrichedRuns) = Len(fin.runLogs)
        /\ \A i \in 1..Len(fin.runLogs) :
              LET run == fin.runLogs[i]
                  er == fout.enrichedRuns[i]
                  evs == EventsWithId(fin.events, Field(run, "eventId"))
              IN /\ DOMAIN er = DOMAIN run \cup Enriched
                 /\ \A k \in DOMAIN run \ Enriched : er[k] = run[k]
                 /\ er.bestLapNum = parseLap(Field(run, "bestLap"))
                 /\ er.avgLapNum = parseLap(Field(run, "avgLap"))
                 /\ evs = {} => er.eventDate = Null /\ er.trackId = Null
                 /\ \A e \in evs :
                       /\ er.eventDate = Field(e, "date")
                       /\ er.trackId =
                            IF Field(e, "trackId") \in {Undefined, Null, Str(<<>>)}
                            THEN Null ELSE Field(e, "trackId")

\* C6's case: one load enriched a run whose event is stored and has a track,
\* and a run whose event is stored without a usable trackId or is missing.
C6_Witness ==
    /\ fout # NotRun
    /\ Len(fout.enrichedRuns) = 2
    /\ fout.enrichedRuns[1].trackId = Str(TrackId1)
    /\ fout.enrichedRuns[1].eventDate = Date1
    /\ fout.enrichedRuns[1].bestLapNum = Num(9500)
    /\ fout.enrichedRuns[2].trackId = Null
    /\ fout.enrichedRuns[2].bestLapNum = Null

-----------------------------------------------------------------------------
(* The setup normalizer on its own, applied to setup records drawn from a   *)
(* bounded set: schema version 1, 2 or missing; setupData missing, null or  *)
(* present; groups missing, null, empty or partly filled; legacy flat       *)
(* fields present or not.                                                   *)

Txt20 == Str(<<"2", "0">>)
Txt22 == Str(<<"2", "2">>)
Txt44 == Str(<<"4", ".", "4">>)
Txt46 == Str(<<"4", ".", "6">>)
Txt1 == Str(<<"1">>)

ChassisInputs ==
    {Absent, Null, MkObj(<<>>)}
      \cup {MkObj(<<<<"rideHeightF", v>>>>) : v \in {Null, Str(<<>>), Txt22}}

SuspensionInputs ==
    {Absent, MkObj(<<<<"springsF", Txt44>>, <<"toeR", Txt1>>>>)}

TiresInputs ==
    {Absent,
     MkObj(<<<<"tireBrand", Txt1>>, <<"tireCompound", Txt1>>, <<"insert", Txt1>>,
             <<"sauce", Txt1>>, <<"prepNotes", Txt1>>>>)}

SetupDataInputs ==
    {Absent, Null}
      \cup {MkObj(<<<<"chassis", c>>, <<"suspension", su>>, <<"tires", ti>>,
                    <<"rideHeight", rh>>, <<"springs", sp>>, <<"shockOil", so>>>>) :
               c \in ChassisInputs, su \in SuspensionInputs, ti \in TiresInputs,
               rh \in {Absent, Txt20}, sp \in {Absent, Txt46}, so \in {Absent, Null, Txt1}}

SetupInputs ==
    {Undefined}
      \cup {MkRec(<<<<"id", Str(SetupId1)>>, <<"carId", Str(CarId1)>>,
                    <<"setupSchemaVersion", ver>>, <<"setupData", d>>>>) :
               ver \in {Absent, Num(1 * Scale), Num(2 * Scale)}, d \in SetupDataInputs}

InitNormalize ==
    /\ CacheIdle
    /\ fin \in SetupInputs
    /\ fout = NotRun

normalize ==
    /\ fout = NotRun
    /\ fout' = normalizeSetupData(fin)
    /\ UNCHANGED <<fin, cacheVars>>

SpecNormalize == InitNormalize /\ [][normalize]_vars

\* The number of leaves of the groups from the i-th on.
RECURSIVE LeafCount(_, _)
LeafCount(norm, i) ==
    IF i > Len(norm.k) THEN 0
    ELSE Len(norm.v[norm.k[i]].k) + LeafCount(norm, i + 1)

\* The value the input holds at group g, leaf l; undefined when the setup,
\* its setupData, the group or the leaf is missing.
InputLeaf(setup, g, l) ==
    IF setup = Undefined THEN Undefined
    ELSE Get(Get(Field(setup, "setupData"), g), l)

\* C10: for every setup input, normalizeSetupData returns exactly the six
\* groups chassis, suspension, drivetrain, tires, electronics, general with
\* all 36 known leaf keys; every leaf value is a string, and it is "" when
\* the input has no value for it (the three slots a legacy field can fill
\* aside).
C10_SixGroupsOfStrings ==
    fout # NotRun =>
        /\ fout.t = "object"
        /\ fout.k = GroupNames
        /\ DOMAIN fout.v = Range(GroupNames)
        /\ LeafCount(fout, 1) = 36
        /\ \A g \in Range(GroupNames) :
              /\ fout.v[g].t = "object"
              /\ fout.v[g].k = LeafNames(g)
              /\ DOMAIN fout.v[g].v = Range(LeafNames(g))
              /\ \A l \in Range(LeafNames(g)) :
                    /\ IsStr(fout.v[g].v[l])
                    /\ (InputLeaf(fin, g, l) \in {Undefined, Null}
                          /\ <<g, l>> \notin {<<"chassis", "rideHeightF">>,
                                              <<"suspension", "springsF">>,
                                              <<"suspension", "shockOilF">>})
                         => fout.v[g].v[l] = Str(<<>>)

\* C10's case: a version-less setup whose chassis group holds a null leaf and
\* whose tires group is missing has been normalized.
C10_Witness ==
    /\ fout # NotRun
    /\ fin # Undefined
    /\ Field(fin, "setupSchemaVersion") = Undefined
    /\ Get(Get(Field(fin, "setupData"), "chassis"), "rideHeightF") = Null
    /\ Get(Field(fin, "setupData"), "tires") = Undefined
    /\ fout.v["chassis"].v["rideHeightF"] = Str(<<>>)
    /\ fout.v["tires"].v["sauce"] = Str(<<>>)

-----------------------------------------------------------------------------
(* The structural diff engine, diff.js (kept in src/TODO.md).  A path is    *)
(* the sequence of its keys: keys are non-empty and hold no dot, so the     *)
(* sequence and the dot-joined text determine each other, and the empty     *)
(* sequence is the empty path ''.  The label of a row, a display text, is   *)
(* left out.                                                                *)

isPlainObject(val) == val.t = "object"

\* Mutant: strings are compared untrimmed.
normalizeValue_noTrim(val) ==
    IF val = Null \/ val = Undefined THEN Str(<<>>) ELSE val

normalizeValue(val) ==
    IF val = Null \/ val = Undefined THEN Str(<<>>)
    ELSE IF IsStr(val) THEN Str(Trim(val.v))
    ELSE val

isEmpty(val) == val = Str(<<>>) \/ val = Null \/ val = Undefined

\* a !== b
StrictNotEqual(a, b) == a.t # b.t \/ a.t = "NaN" \/ a # b

\* The changeType of a leaf comparison.
ChangeType(normA, normB) ==
    LET emptyA == isEmpty(normA)
        emptyB == isEmpty(normB)
    IN IF emptyA /\ ~emptyB THEN "added"
       ELSE IF ~emptyA /\ emptyB THEN "removed"
       ELSE IF ~emptyA /\ ~emptyB /\ StrictNotEqual(normA, normB) THEN "modified"
       ELSE "same"

\* The row pushed for a leaf comparison at path prefix.
LeafRow(valA, valB, prefix) ==
    LET normA == normalizeValue(valA)
        normB == normalizeValue(valB)
        changeType == ChangeType(normA, normB)
    IN [path |-> prefix,
        group |-> IF prefix = <<>> THEN "" ELSE prefix[1],
        aValue |-> normA,
        bValue |-> normB,
        changed |-> changeType # "same",
        changeType |-> changeType]

\* Object.keys(isObj ? val : {})
KeysOf(val) == IF isPlainObject(val) THEN val.k ELSE <<>>

\* new Set([...keysA, ...keysB]) in iteration order
UnionKeys(keysA, keysB) ==
    keysA \o SelectSeq(keysB, LAMBDA k : k \notin Range(keysA))

RECURSIVE visit(_, _, _, _)
RECURSIVE visitKeys(_, _, _, _, _)

\* visit(valA, valB, prefix): the rows it pushes, in order.
visit(valA, valB, prefix, ignorePaths) ==
    IF isPlainObject(valA) \/ isPlainObject(valB)
    THEN visitKeys(valA, valB, prefix, UnionKeys(KeysOf(valA), KeysOf(valB)), ignorePaths)
    ELSE <<LeafRow(valA, valB, prefix)>>

\* The for loop of visit over the keys still to go.
visitKeys(valA, valB, prefix, keys, ignorePaths) ==
    IF keys = <<>> THEN <<>>
    ELSE LET key == Head(keys)
             path == IF prefix # <<>> THEN prefix \o <<key>> ELSE <<key>>
         IN (IF path \in ignorePaths THEN <<>>
             ELSE visit(IF isPlainObject(valA) THEN Get(valA, key) ELSE Undefined,
                        IF isPlainObject(valB) THEN Get(valB, key) ELSE Undefined,
                        path, ignorePaths))
              \o visitKeys(valA, valB, prefix, Tail(keys), ignorePaths)

\* options is a record; without an ignorePaths field nothing is ignored.
diffObjects(a, b, options) ==
    LET ignorePaths == IF "ignorePaths" \in DOMAIN options
                       THEN options.ignorePaths ELSE {}
        rows == visit(OrElse(a, MkObj(<<>>)), OrElse(b, MkObj(<<>>)), <<>>, ignorePaths)
    IN SelectSeq(rows, LAMBDA r : r.path # <<>>)

-----------------------------------------------------------------------------
(* The diff engine on its own, applied to pairs of values drawn from a      *)
(* bounded set: records over the keys x and w, x holding a leaf or a nested *)
(* record over y and z; leaves undefined, null, blank, text with and        *)
(* without surrounding blanks, or a number; a root that is no record; with  *)
(* and without ignorePaths.                                                 *)

Txt5 == Str(<<"5">>)
Txt6 == Str(<<"6">>)

DiffLeaves ==
    {Undefined, Null, Str(<<" ">>), Txt5, Str(<<" ", "5">>), Txt6, Num(5 * Scale)}

DiffNested ==
    {MkObj(<<>>)}
      \cup {MkObj(<<<<"y", v>>, <<"z", z>>>>) : v \in {Null, Txt5, Txt6}, z \in {Absent, Txt1}}

DiffRoots ==
    {Undefined, Null, Txt5, MkObj(<<>>)}
      \cup {MkObj(<<<<"x", v>>, <<"w", w>>>>) :
               v \in DiffLeaves \cup DiffNested, w \in {Absent, Txt1, Null}}
      \cup {MkObj(<<<<"w", w>>, <<"x", v>>>>) :
               v \in DiffLeaves \cup DiffNested, w \in {Txt1, Null}}

DiffOptions ==
    {MkRec(<<>>), [ignorePaths |-> {<<"x">>}], [ignorePaths |-> {<<"x", "y">>}]}

InitDiff ==
    /\ CacheIdle
    /\ \E a \in DiffRoots, b \in DiffRoots, o \in DiffOptions :
          fin = [a |-> a, b |-> b, options |-> o]
    /\ fout = NotRun

diff ==
    /\ fout = NotRun
    /\ fout' = [rows |-> diffObjects(fin.a, fin.b, fin.options)]
    /\ UNCHANGED <<fin, cacheVars>>

SpecDiff == InitDiff /\ [][diff]_vars

\* The value found in v by following the keys of path p; undefined where a
\* key is missing or the way leads through a value that is no record.
RECURSIVE Lookup(_, _)
Lookup(v, p) == IF p = <<>> THEN v ELSE Lookup(Get(v, Head(p)), Tail(p))

\* Every non-empty key path of v.
RECURSIVE Paths(_)
Paths(v) ==
    IF v.t # "object" THEN {}
    ELSE UNION {{<<k>>} \cup {<<k>> \o q : q \in Paths(v.v[k])} : k \in DOMAIN v.v}

Ignored(p, options) ==
    /\ "ignorePaths" \in DOMAIN options
    /\ \E n \in 1..Len(p) : SubSeq(p, 1, n) \in options.ignorePaths

\* The leaf paths of a diff: the key paths of a or b at which neither side
\* holds a nested record, the ignored ones aside.
LeafPaths(a, b, options) ==
    {p \in Paths(a) \cup Paths(b) :
        /\ Lookup(a, p).t # "object"
        /\ Lookup(b, p).t # "object"
        /\ ~Ignored(p, options)}

Empty(v) == v = Null \/ v = Undefined \/ (IsStr(v) /\ Trim(v.v) = <<>>)

UnequalNormalized(l, r) ==
    IF IsStr(l) /\ IsStr(r) THEN Trim(l.v) # Trim(r.v) ELSE l.t # r.t \/ l # r

RowsAt(rows, p) == {i \in 1..Len(rows) : rows[i].path = p}

ReachedByRecordPairs(a, b, p) ==
    \A n \in 1..(Len(p) - 1) :
        /\ Lookup(a, SubSeq(p, 1, n)).t = "object"
        /\ Lookup(b, SubSeq(p, 1, n)).t = "object"

\* C9: diffObjects recurses into a key only when both sides hold plain nested
\* records at that key; in every other case the two values at that key are
\* compared as leaves and exactly one row is emitted for that path (none
\* below it); a key missing on one side is compared as empty on that side.
C9_RecursesOnlyIntoRecordPairs ==
    fout # NotRun =>
        \A p \in Paths(fin.a) \cup Paths(fin.b) :
            (/\ ~Ignored(p, fin.options)
             /\ ReachedByRecordPairs(fin.a, fin.b, p)
             /\ ~(Lookup(fin.a, p).t = "object" /\ Lookup(fin.b, p).t = "object"))
            => /\ Cardinality(RowsAt(fout.rows, p)) = 1
               /\ \A i \in 1..Len(fout.rows) :
                     LET q == fout.rows[i].path
                     IN Len(q) > Len(p) => SubSeq(q, 1, Len(p)) # p
               /\ \A i \in RowsAt(fout.rows, p) :
                     /\ Lookup(fin.a, p) = Undefined => fout.rows[i].aValue = Str(<<>>)
                     /\ Lookup(fin.b, p) = Undefined => fout.rows[i].bValue = Str(<<>>)

-----------------------------------------------------------------------------
(* The setup-change correlator, analyzeSetupChanges in src/sw.js.  An       *)
(* insight is kept as its parts (the change range, the signed average and   *)
(* the number of comparisons) instead of the sentence built from them.      *)

\* ${x} in a template literal
TemplateText(x) ==
    CASE x.t = "string" -> x.v
      [] x.t = "undefined" -> <<"u", "n", "d", "e", "f", "i", "n", "e", "d">>
      [] x.t = "null" -> <<"n", "u", "l", "l">>

\* `${run.carId}_${run.trackId || 'unknown'}`
GroupKey(run) ==
    TemplateText(Field(run, "carId")) \o <<"_">>
      \o TemplateText(OrElse(Field(run, "trackId"), Str(<<"u", "n", "k", "n", "o", "w", "n">>)))

\* new Date(x) as a number that grows with the date: the day count of a
\* text that starts YYYY-MM-DD, NaN for anything else.
DateValue(x) ==
    IF /\ IsStr(x) /\ Len(x.v) >= 10
       /\ \A i \in {1, 2, 3, 4, 6, 7, 9, 10} : IsDigit(x.v[i])
       /\ x.v[5] = "-" /\ x.v[8] = "-"
    THEN Num(DigitsVal(SubSeq(x.v, 1, 4)) * 372 + DigitsVal(SubSeq(x.v, 6, 7)) * 31
               + DigitsVal(SubSeq(x.v, 9, 10)))
    ELSE NaN

\* new Date(a.eventDate || a.createdAt) - new Date(b.eventDate || b.createdAt);
\* sort reads a NaN result as 0.
CompareByDate(a, b) ==
    LET da == DateValue(OrElse(Field(a, "eventDate"), Field(a, "createdAt")))
        db2 == DateValue(OrElse(Field(b, "eventDate"), Field(b, "createdAt")))
    IN IF da = NaN \/ db2 = NaN THEN 0 ELSE da.v - db2.v

\* One step of the stable sort: r goes behind the elements that do not
\* compare greater than it.
InsertByDate(sorted, r) ==
    LET k == CHOOSE n \in 0..Len(sorted) :
                 /\ \A i \in 1..n : CompareByDate(sorted[i], r) <= 0
                 /\ (n = Len(sorted) \/ CompareByDate(sorted[n + 1], r) > 0)
    IN SubSeq(sorted, 1, k) \o <<r>> \o SubSeq(sorted, k + 1, Len(sorted))

\* carTrackRuns.sort(...)
RECURSIVE SortByDate(_)
SortByDate(runs) ==
    IF runs = <<>> THEN <<>>
    ELSE InsertByDate(SortByDate(SubSeq(runs, 1, Len(runs) - 1)), runs[Len(runs)])

\* The elements of s without repeats, in order of first occurrence.
RECURSIVE Distinct(_)
Distinct(s) ==
    IF s = <<>> THEN <<>>
    ELSE LET d == Distinct(SubSeq(s, 1, Len(s) - 1))
         IN IF s[Len(s)] \in Range(d) THEN d ELSE Append(d, s[Len(s)])

\* Object.values(runsByCarTrack): the runs with a setup and a lap time, by
\* car and track, the groups in the order their first run came.
RunsByCarTrack(runs) ==
    LET eligible == SelectSeq(runs, LAMBDA run :
                        Truthy(Field(run, "setupId")) /\ Truthy(Field(run, "bestLapNum")))
        keys == Distinct([i \in 1..Len(eligible) |-> GroupKey(eligible[i])])
    IN [i \in 1..Len(keys) |-> SelectSeq(eligible, LAMBDA run : GroupKey(run) = keys[i])]

\* map.get(id)
MapLookup(map, id) == IF id \in DOMAIN map THEN map[id] ELSE Undefined

\* x.toFixed(3) for x counted in thousandths
ToFixed3(x) ==
    IF x < 0 THEN <<"-">> \o QuotientToFixed3(-x, 1) ELSE QuotientToFixed3(x, 1)

\* diff.filter(d => d.changeType !== 'none').length
ChangeCount(rows) == Len(SelectSeq(rows, LAMBDA d : d.changeType # "none"))

Notes_slowerWhenEqual(bestLapDelta) ==
    IF bestLapDelta < 0
    THEN <<"I", "m", "p", "r", "o", "v", "e", "d", " ", "b", "y", " ">> \o ToFixed3(-bestLapDelta) \o <<"s">>
    ELSE <<"S", "l", "o", "w", "e", "r", " ", "b", "y", " ">> \o ToFixed3(bestLapDelta) \o <<"s">>

Notes(bestLapDelta) ==
    IF bestLapDelta < 0
    THEN <<"I", "m", "p", "r", "o", "v", "e", "d", " ", "b", "y", " ">> \o ToFixed3(-bestLapDelta) \o <<"s">>
    ELSE IF bestLapDelta > 0
    THEN <<"S", "l", "o", "w", "e", "r", " ", "b", "y", " ">> \o ToFixed3(bestLapDelta) \o <<"s">>
    ELSE <<"N", "o", " ", "c", "h", "a", "n", "g", "e">>

\* The body of the loop over consecutive runs: the comparison pushed for
\* previousRun and currentRun, or nothing.
Compare(previousRun, currentRun, analyticsContext) ==
    LET currentSetup == MapLookup(analyticsContext.setupsById, Field(currentRun, "setupId"))
        previousSetup == MapLookup(analyticsContext.setupsById, Field(previousRun, "setupId"))
        rows == diffObjects(normalizeSetupData(previousSetup),
                            normalizeSetupData(currentSetup), MkRec(<<>>))
        bestLapDelta == Field(currentRun, "bestLapNum").v - Field(previousRun, "bestLapNum").v
        track == MapLookup(analyticsContext.tracksById, Field(currentRun, "trackId"))
    IN IF Field(currentRun, "setupId") = Field(previousRun, "setupId") THEN <<>>
       ELSE IF currentSetup = Undefined \/ previousSetup = Undefined THEN <<>>
       ELSE <<[date |-> OrElse(Field(currentRun, "eventDate"), Field(currentRun, "createdAt")),
               trackName |-> IF track # Undefined THEN Field(track, "name")
                             ELSE Str(<<"U", "n", "k", "n", "o", "w", "n", " ", "T", "r", "a", "c", "k">>),
               changeCount |-> ChangeCount(rows),
               bestLapDelta |-> Num(bestLapDelta),
               notes |-> Str(Notes(bestLapDelta))]>>

\* The comparisons of one sorted group, from the i-th run on.
RECURSIVE GroupComparisons(_, _, _)
GroupComparisons(carTrackRuns, i, analyticsContext) ==
    IF i > Len(carTrackRuns) THEN <<>>
    ELSE Compare(carTrackRuns[i - 1], carTrackRuns[i], analyticsContext)
           \o GroupComparisons(carTrackRuns, i + 1, analyticsContext)

\* The comparisons of the groups from the g-th on.
RECURSIVE AllComparisons(_, _, _)
AllComparisons(groups, g, analyticsContext) ==
    IF g > Len(groups) THEN <<>>
    ELSE GroupComparisons(SortByDate(groups[g]), 2, analyticsContext)
           \o AllComparisons(groups, g + 1, analyticsContext)

RECURSIVE SumDelta(_)
SumDelta(cs) == IF cs = <<>> THEN 0 ELSE cs[1].bestLapDelta.v + SumDelta(Tail(cs))

\* The insight for one range of change counts, or nothing.
RangeInsight(range, cs) ==
    IF cs = <<>> THEN <<>>
    ELSE LET sum == SumDelta(cs)
             avg == IF sum < 0 THEN <<"-">> \o QuotientToFixed3(-sum, Len(cs))
                    ELSE QuotientToFixed3(sum, Len(cs))
         IN <<[range |-> range,
               avgDelta |-> (IF sum >= 0 THEN <<"+">> ELSE <<>>) \o avg,
               comparisons |-> Len(cs)]>>

Insights_fromTwo(comparisons) ==
    IF Len(comparisons) >= 2
    THEN RangeInsight("10+", SelectSeq(comparisons, LAMBDA c : c.changeCount > 10))
    ELSE IF Len(comparisons) > 0
    THEN <<[available |-> Len(comparisons)]>>
    ELSE <<>>

Insights(comparisons) ==
    IF Len(comparisons) >= 3
    THEN RangeInsight("1-3", SelectSeq(comparisons,
                                LAMBDA c : c.changeCount >= 1 /\ c.changeCount <= 3))
           \o RangeInsight("4-10", SelectSeq(comparisons,
                                LAMBDA c : c.changeCount >= 4 /\ c.changeCount <= 10))
           \o RangeInsight("10+", SelectSeq(comparisons, LAMBDA c : c.changeCount > 10))
    ELSE IF Len(comparisons) > 0
    THEN <<[available |-> Len(comparisons)]>>
    ELSE <<>>

analyzeSetupChanges(runs, analyticsContext) ==
    LET comparisons == AllComparisons(RunsByCarTrack(runs), 1, analyticsContext)
    IN [comparisons |-> comparisons, insights |-> Insights(comparisons)]

-----------------------------------------------------------------------------
(* The correlator on its own, applied to enriched runs and lookup maps      *)
(* drawn from bounded sets.                                                 *)

MaxSetupRuns == 2   \* enriched runs handed to analyzeSetupChanges

SetupId2 == <<"s", "2">>

\* Setup A: schema 2, front springs 4.4.
SetupA(id) ==
    MkRec(<<<<"id", Str(id)>>, <<"carId", Str(CarId1)>>,
            <<"setupSchemaVersion", Num(2 * Scale)>>,
            <<"setupData", MkObj(<<<<"suspension", MkObj(<<<<"springsF", Txt44>>>>)>>>>)>>>>)

\* Setup B: setup A with the front springs changed to 4.6 and a front ride
\* height added.
SetupB(id) ==
    MkRec(<<<<"id", Str(id)>>, <<"carId", Str(CarId1)>>,
            <<"setupSchemaVersion", Num(2 * Scale)>>,
            <<"setupData",
              MkObj(<<<<"chassis", MkObj(<<<<"rideHeightF", Txt22>>>>)>>,
                      <<"suspension", MkObj(<<<<"springsF", Txt46>>>>)>>>>)>>>>)

\* Setup C: a schema 1 record whose legacy springs field holds 4.4.
SetupC(id) ==
    MkRec(<<<<"id", Str(id)>>, <<"carId", Str(CarId1)>>,
            <<"setupData", MkObj(<<<<"springs", Txt44>>>>)>>>>)

SetupMaps ==
    {MapById(<<SetupA(SetupId1), SetupB(SetupId2)>>),
     MapById(<<SetupA(SetupId1), SetupC(SetupId2)>>),
     MapById(<<SetupA(SetupId1)>>)}

TrackMaps ==
    {MapById(<<>>), MapById(<<[id |-> Str(TrackId1), name |-> NameA]>>)}

CorrelateRunBodies ==
    {[carId |-> Str(CarId1), trackId |-> tr, setupId |-> su, bestLapNum |-> lap,
      eventDate |-> d] :
        tr \in {Str(TrackId1), Null},
        su \in {Str(SetupId1), Str(SetupId2), Null},
        lap \in {Num(15500), Num(15100)},
        d \in {Date1, Date2}}

InitCorrelate ==
    /\ CacheIdle
    /\ \E rl \in RunLists(CorrelateRunBodies, MaxSetupRuns), sm \in SetupMaps, tm \in TrackMaps :
          fin = [runs |-> rl, analyticsContext |-> [setupsById |-> sm, tracksById |-> tm]]
    /\ fout = NotRun

correlate ==
    /\ fout = NotRun
    /\ fout' = analyzeSetupChanges(fin.runs, fin.analyticsContext)
    /\ UNCHANGED <<fin, cacheVars>>

SpecCorrelate == InitCorrelate /\ [][correlate]_vars

\* The number of diff rows between the normalized setups with ids s and t
\* whose changeType is not 'same'.
ChangedRows(setupsById, s, t) ==
    LET rows == diffObjects(normalizeSetupData(setupsById[s]),
                            normalizeSetupData(setupsById[t]), MkRec(<<>>))
    IN Cardinality({i \in 1..Len(rows) : rows[i].changeType # "same"})

\* C7: in every comparison emitted by analyzeSetupChanges, changeCount is
\* the number of diff rows between the two normalized setups whose
\* changeType is not 'same': it is that number for two of the runs' setups,
\* and when two runs were handed in, for the setups of those two runs.
C7_ChangeCountCountsChanges ==
    fout # NotRun =>
        \A i \in 1..Len(fout.comparisons) :
            LET used == {Field(fin.runs[j], "setupId") : j \in 1..Len(fin.runs)}
                          \cap DOMAIN fin.analyticsContext.setupsById
            IN /\ \E s \in used : \E t \in used \ {s} :
                     fout.comparisons[i].changeCount
                       = ChangedRows(fin.analyticsContext.setupsById, s, t)
               /\ Len(fin.runs) = 2 =>
                     fout.comparisons[i].changeCount
                       = ChangedRows(fin.analyticsContext.setupsById,
                                     Field(fin.runs[1], "setupId"),
                                     Field(fin.runs[2], "setupId"))

-----------------------------------------------------------------------------
(* Claims about the legacy mapping of the normalizer, under SpecNormalize *)

\* The canonical slots a legacy flat field feeds: <<group, leaf, legacy field>>.
LegacySlots ==
    {<<"chassis", "rideHeightF", "rideHeight">>,
     <<"suspension", "springsF", "springs">>,
     <<"suspension", "shockOilF", "shockOil">>}

\* The setup's schema version is below 2, or missing.
BelowSchema2(setup) ==
    \/ setup = Undefined
    \/ Field(setup, "setupSchemaVersion") = Undefined
    \/ Field(setup, "setupSchemaVersion").v < 2 * Scale

\* The flat field f of the setup's setupData, undefined when there is none.
InputLegacy(setup, f) ==
    IF setup = Undefined THEN Undefined ELSE Get(Field(setup, "setupData"), f)

NoValue(v) == v = Undefined \/ v = Null \/ v = Str(<<>>)

\* C11: below schema version 2 (or without one) each legacy flat field
\* rideHeight, springs, shockOil is copied into chassis.rideHeightF,
\* suspension.springsF, suspension.shockOilF iff that slot is empty, and a
\* populated slot keeps its own value; from schema version 2 on the slot is
\* the input's own value ("" when empty) whatever the legacy fields hold.
C11_LegacyFillsEmptySlots ==
    fout # NotRun =>
        \A slot \in LegacySlots :
            LET own == InputLeaf(fin, slot[1], slot[2])
                legacy == InputLegacy(fin, slot[3])
                out == fout.v[slot[1]].v[slot[2]]
            IN /\ ~NoValue(own) => out = own
               /\ (NoValue(own) /\ BelowSchema2(fin) /\ ~NoValue(legacy)) => out = legacy
               /\ (NoValue(own) /\ (~BelowSchema2(fin) \/ NoValue(legacy))) => out = Str(<<>>)

\* C11's case: a version-less setup with all three legacy fields filled, a
\* populated front ride height and no suspension group has been normalized.
C11_Witness ==
    /\ fout # NotRun
    /\ fin # Undefined
    /\ Field(fin, "setupSchemaVersion") = Undefined
    /\ InputLegacy(fin, "rideHeight") = Txt20
    /\ InputLeaf(fin, "chassis", "rideHeightF") = Txt22
    /\ fout.v["chassis"].v["rideHeightF"] = Txt22
    /\ InputLeaf(fin, "suspension", "springsF") = Undefined
    /\ fout.v["suspension"].v["springsF"] = Txt46
    /\ fout.v["suspension"].v["shockOilF"] = Txt1

-----------------------------------------------------------------------------
(* The normalizer applied twice: to a setup x, and then to a setup whose    *)
(* setupData is the first result, under schema version 1, 2 or none.        *)

InitRenormalize ==
    /\ CacheIdle
    /\ \E x \in SetupInputs, ver \in {Absent, Num(1 * Scale), Num(2 * Scale)} :
          fin = [x |-> x, ver |-> ver]
    /\ fout = NotRun

renormalize ==
    /\ fout = NotRun
    /\ LET once == normalizeSetupData(fin.x)
           again == MkRec(<<<<"id", Str(SetupId1)>>, <<"setupSchemaVersion", fin.ver>>,
                            <<"setupData", once>>>>)
       IN fout' = [once |-> once, twice |-> normalizeSetupData(again)]
    /\ UNCHANGED <<fin, cacheVars>>

SpecRenormalize == InitRenormalize /\ [][renormalize]_vars

\* C12: normalizeSetupData is idempotent and pure: normalizing a setup whose
\* setupData is normalizeSetupData(x), under schema version 1, 2 or none,
\* gives a record equal to normalizeSetupData(x), and no call changes its
\* input record.
C12_IdempotentAndPure ==
    /\ [](fout # NotRun => fout.twice = fout.once)
    /\ [][fin' = fin]_vars

\* C12's case: a setup whose legacy ride height was mapped into an empty slot
\* has been normalized again under schema version 1.
C12_Witness ==
    /\ fout # NotRun
    /\ fin.ver = Num(1 * Scale)
    /\ InputLegacy(fin.x, "rideHeight") = Txt20
    /\ fout.once.v["chassis"].v["rideHeightF"] = Txt20
    /\ fout.twice.v["chassis"].v["rideHeightF"] = Txt20

-----------------------------------------------------------------------------
(* The lap parser on its own, applied to null, undefined, numbers and every *)
(* text of up to MaxLapLen characters over digits, the point, the minus     *)
(* sign, the colon and a letter.                                            *)

MaxLapLen == 3      \* characters of a lap text

LapChars == {"0", "1", ".", "-", ":", "a"}

LapTexts(n) == UNION {{Str(f) : f \in [1..m -> LapChars]} : m \in 0..n}

LapNumbers == {Num(0), Num(0 - 1 * Scale), Num(15234)}

InitParseLap ==
    /\ CacheIdle
    /\ fin \in {Null, Undefined} \cup LapNumbers \cup LapTexts(MaxLapLen)
    /\ fout = NotRun

parseLapStep ==
    /\ fout = NotRun
    /\ fout' = [value |-> parseLap(fin)]
    /\ UNCHANGED <<fin, cacheVars>>

SpecParseLap == InitParseLap /\ [][parseLapStep]_vars

\* The text is entirely a decimal number: an optional sign, digits, and an
\* optional point with digits, with a digit on at least one side of it.
IsDecimalText(s) ==
    LET body == IF s # <<>> /\ s[1] \in {"+", "-"} THEN Drop(s, 1) ELSE s
        ni == PrefixLen(body, IsDigit)
        rest == Drop(body, ni)
        frac == Drop(rest, 1)
    IN \/ ni > 0 /\ rest = <<>>
       \/ /\ rest # <<>> /\ rest[1] = "."
          /\ \A i \in 1..Len(frac) : IsDigit(frac[i])
          /\ (ni > 0 \/ frac # <<>>)

\* C13: parseLap returns null for the empty string, null, undefined, zero,
\* every negative number and every string that is not entirely a decimal
\* number; for every other string or number it returns the parsed positive
\* value.
C13_NullUnlessDecimal ==
    fout # NotRun =>
        /\ (fin = Null \/ fin = Undefined) => fout.value = Null
        /\ IsNum(fin) => fout.value = (IF fin.v <= 0 THEN Null ELSE fin)
        /\ (IsStr(fin) /\ ~IsDecimalText(fin.v)) => fout.value = Null
        /\ (IsStr(fin) /\ IsDecimalText(fin.v)) =>
              fout.value = (IF ParseFloat(fin.v).v <= 0 THEN Null ELSE ParseFloat(fin.v))

\* What does hold of parseLap on these inputs: the result is null or a
\* positive number, and a text that starts with no number gives null.
C13_NullOrPositive ==
    fout # NotRun =>
        /\ fout.value = Null \/ (IsNum(fout.value) /\ fout.value.v > 0)
        /\ (IsStr(fin) /\ IsDecimalText(fin.v)) =>
              fout.value = (IF ParseFloat(fin.v).v <= 0 THEN Null ELSE ParseFloat(fin.v))

-----------------------------------------------------------------------------
(* The time-input parser, parseTimeInputToSeconds in src/sw.js *)

AllDigits(s) == s # <<>> /\ \A i \in 1..Len(s) : IsDigit(s[i])

\* The tail of a match: nothing, or a point followed by digits.  (?:\.(\d+))?$
IsFractionTail(s) == s = <<>> \/ (s[1] = "." /\ AllDigits(Drop(s, 1)))

\* /^\d+(?:\.\d+)?$/.test(s)
MatchesPlainSeconds(s) ==
    LET ni == PrefixLen(s, IsDigit)
    IN ni > 0 /\ IsFractionTail(Drop(s, ni))

\* s.match(/^(\d+)(:(\d{2})){n}(?:\.(\d+))?$/): the captured groups, the
\* fraction last (empty when there is none), or null without a match.
MatchClock(s, n) ==
    LET ni == PrefixLen(s, IsDigit)
        rest == Drop(s, ni)
        tail == Drop(rest, 3 * n)
    IN IF /\ ni > 0
          /\ Len(rest) >= 3 * n
          /\ \A k \in 0..(n - 1) :
                /\ rest[3 * k + 1] = ":"
                /\ IsDigit(rest[3 * k + 2])
                /\ IsDigit(rest[3 * k + 3])
          /\ IsFractionTail(tail)
       THEN [fields |-> <<SubSeq(s, 1, ni)>>
                          \o [k \in 1..n |-> SubSeq(rest, 3 * k - 1, 3 * k)],
             fraction |-> IF tail = <<>> THEN <<>> ELSE Drop(tail, 1)]
       ELSE Null

\* m[4] ? parseFloat('0.' + m[4]) : 0, in thousandths
Millis(fraction) == IF fraction = <<>> THEN 0 ELSE FracVal(fraction)

\* Mutant: the hours count 60 seconds each.
ClockSeconds_hoursAsMinutes(m) ==
    LET f == m.fields
    IN IF Len(f) = 3
       THEN (DigitsVal(f[1]) * 60 + DigitsVal(f[2]) * 60 + DigitsVal(f[3])) * Scale
              + Millis(m.fraction)
       ELSE (DigitsVal(f[1]) * 60 + DigitsVal(f[2])) * Scale + Millis(m.fraction)

\* hours * 3600 + minutes * 60 + seconds + millis, or
\* minutes * 60 + seconds + millis, in thousandths
ClockSeconds(m) ==
    LET f == m.fields
    IN IF Len(f) = 3
       THEN (DigitsVal(f[1]) * 3600 + DigitsVal(f[2]) * 60 + DigitsVal(f[3])) * Scale
              + Millis(m.fraction)
       ELSE (DigitsVal(f[1]) * 60 + DigitsVal(f[2])) * Scale + Millis(m.fraction)

parseTimeInputToSeconds(s) ==
    IF ~Truthy(s) THEN Null
    ELSE LET t == Trim(s.v)
         IN IF MatchesPlainSeconds(t) THEN ParseFloat(t)
            ELSE IF MatchClock(t, 2) # Null THEN Num(ClockSeconds(MatchClock(t, 2)))
            ELSE IF MatchClock(t, 1) # Null THEN Num(ClockSeconds(MatchClock(t, 1)))
            ELSE Null

(* The parser on its own, applied to null, undefined and texts put together *)
(* from up to three pieces (digits, a letter, or nothing) with colons,      *)
(* points or nothing between them and an optional fraction at the end, bare *)
(* or inside blanks.                                                        *)

TimePieces == {<<>>, <<"1">>, <<"0", "5">>, <<"1", "2">>, <<"a">>}
TimeSeparators == {<<>>, <<":">>, <<".">>}
TimeTails == {<<>>, <<".">>, <<".", "5">>}
TimePads == {<<>>, <<" ">>}

InitParseTime ==
    /\ CacheIdle
    /\ \/ fin \in {Null, Undefined}
       \/ \E p1 \in TimePieces, p2 \in TimePieces, p3 \in TimePieces,
             s1 \in TimeSeparators, s2 \in TimeSeparators,
             tail \in TimeTails, pad \in TimePads :
             fin = Str(pad \o p1 \o s1 \o p2 \o s2 \o p3 \o tail \o pad)
    /\ fout = NotRun

parseTimeStep ==
    /\ fout = NotRun
    /\ fout' = [value |-> parseTimeInputToSeconds(fin)]
    /\ UNCHANGED <<fin, cacheVars>>

SpecParseTime == InitParseTime /\ [][parseTimeStep]_vars

(* The three grammars, read off a text by cutting it at its colons and its *)
(* last part at the first point.                                           *)

RECURSIVE SplitAtColons(_)
SplitAtColons(s) ==
    IF \E i \in 1..Len(s) : s[i] = ":"
    THEN LET i == CHOOSE j \in 1..Len(s) :
                     s[j] = ":" /\ \A k \in 1..(j - 1) : s[k] # ":"
         IN <<SubSeq(s, 1, i - 1)>> \o SplitAtColons(Drop(s, i))
    ELSE <<s>>

\* Whole seconds and fraction digits of a part "ss" or "ss.fff"
SecondsPart(s) ==
    IF \E i \in 1..Len(s) : s[i] = "."
    THEN LET i == CHOOSE j \in 1..Len(s) :
                     s[j] = "." /\ \A k \in 1..(j - 1) : s[k] # "."
         IN [whole |-> SubSeq(s, 1, i - 1), point |-> TRUE, fraction |-> Drop(s, i)]
    ELSE [whole |-> s, point |-> FALSE, fraction |-> <<>>]

TwoDigits(s) == Len(s) = 2 /\ AllDigits(s)

\* The text is plain seconds (1 part), MM:SS (2 parts) or HH:MM:SS (3 parts),
\* each with an optional fraction.
InGrammar(t, parts) ==
    LET cut == SplitAtColons(t)
        last == SecondsPart(cut[Len(cut)])
    IN /\ Len(cut) = parts
       /\ parts > 1 => AllDigits(cut[1])
       /\ \A i \in 2..(parts - 1) : TwoDigits(cut[i])
       /\ IF parts = 1 THEN AllDigits(last.whole) ELSE TwoDigits(last.whole)
       /\ last.point => AllDigits(last.fraction)

\* hours * 3600 + minutes * 60 + seconds + fraction of a text of a grammar,
\* in thousandths
GrammarSeconds(t) ==
    LET cut == SplitAtColons(t)
        n == Len(cut)
        last == SecondsPart(cut[n])
        hours == IF n = 3 THEN DigitsVal(cut[1]) ELSE 0
        minutes == IF n >= 2 THEN DigitsVal(cut[n - 1]) ELSE 0
    IN (hours * 3600 + minutes * 60 + DigitsVal(last.whole)) * Scale
         + (IF last.point THEN FracVal(last.fraction) ELSE 0)

TimeText == IF fin \in {Null, Undefined} THEN <<>> ELSE Trim(fin.v)

\* C14: parseTimeInputToSeconds accepts exactly the three grammars: for a
\* text that (once trimmed) is plain seconds, MM:SS or HH:MM:SS, each with an
\* optional fraction, it returns hours * 3600 + minutes * 60 + seconds +
\* fraction; for every other input, the empty one included, it returns null.
C14_ThreeGrammars ==
    fout # NotRun =>
        IF \E parts \in 1..3 : InGrammar(TimeText, parts)
        THEN fout.value = Num(GrammarSeconds(TimeText))
        ELSE fout.value = Null

\* An HH:MM:SS text with a fraction has been parsed to a number.
C14_Witness ==
    /\ fout # NotRun
    /\ InGrammar(TimeText, 3)
    /\ SecondsPart(SplitAtColons(TimeText)[3]).point
    /\ fout.value # Null

C14_WitnessMinutes == fout # NotRun /\ InGrammar(TimeText, 2) /\ fout.value # Null
C14_WitnessPlain == fout # NotRun /\ InGrammar(TimeText, 1) /\ fout.value # Null
C14_WitnessNoMatch ==
    /\ fout # NotRun
    /\ fin \notin {Null, Undefined}
    /\ TimeText # <<>>
    /\ fout.value = Null

-----------------------------------------------------------------------------
(* Dates (stats.js, kept in src/unnamed/part_001).  The calendar of the    *)
(* model is May 2024; an instant is counted in milliseconds since          *)
(* 2024-05-01T00:00:00.000Z.  The local time zone is an input of every     *)
(* function that reads a local clock field: tz is what has to be added to  *)
(* UTC to get local time, in minutes (-300 is UTC-5).                      *)

DayMs == 86400000
MinuteMs == 60000

TwoDigitText(n) == <<DigitChar(n \div 10), DigitChar(n % 10)>>

\* "2024-05-DD", what <input type="date"> yields for day d of the month
DayText(d) == <<"2", "0", "2", "4", "-", "0", "5", "-">> \o TwoDigitText(d)

\* Date.prototype.toISOString of the instant ms milliseconds after midnight
\* UTC of day d of the month
IsoText(d, ms) ==
    LET sec == ms \div 1000
        milli == ms % 1000
    IN DayText(d) \o <<"T">> \o TwoDigitText(sec \div 3600) \o <<":">>
         \o TwoDigitText((sec \div 60) % 60) \o <<":">> \o TwoDigitText(sec % 60)
         \o <<".", DigitChar(milli \div 100), DigitChar((milli \div 10) % 10),
              DigitChar(milli % 10), "Z">>

IsDayText(s) ==
    /\ Len(s) = 10
    /\ SubSeq(s, 1, 8) = <<"2", "0", "2", "4", "-", "0", "5", "-">>
    /\ IsDigit(s[9]) /\ IsDigit(s[10])
    /\ DigitsVal(SubSeq(s, 9, 10)) \in 1..31

IsIsoText(s) ==
    /\ Len(s) = 24
    /\ IsDayText(SubSeq(s, 1, 10))
    /\ s[11] = "T" /\ s[14] = ":" /\ s[17] = ":" /\ s[20] = "." /\ s[24] = "Z"
    /\ \A i \in {12, 13, 15, 16, 18, 19, 21, 22, 23} : IsDigit(s[i])

\* new Date(x).getTime() for a text x: a date-only text is read as midnight
\* UTC, a full ISO text as the instant it names, anything else is an
\* Invalid Date.
DateTime(x) ==
    IF ~IsStr(x) THEN NaN
    ELSE IF IsDayText(x.v) THEN Num((DigitsVal(SubSeq(x.v, 9, 10)) - 1) * DayMs)
    ELSE IF IsIsoText(x.v)
    THEN Num((DigitsVal(SubSeq(x.v, 9, 10)) - 1) * DayMs
               + DigitsVal(SubSeq(x.v, 12, 13)) * 3600000
               + DigitsVal(SubSeq(x.v, 15, 16)) * MinuteMs
               + DigitsVal(SubSeq(x.v, 18, 19)) * 1000
               + DigitsVal(SubSeq(x.v, 21, 23)))
    ELSE NaN

\* The local calendar day (of the month) an instant falls on
LocalDay(t, tz) == ((t + tz * MinuteMs) \div DayMs) + 1

\* endDate.setHours(23, 59, 59, 999): the last millisecond of the local day
\* the instant falls on
SetHoursEndOfDay(t, tz) == LocalDay(t, tz) * DayMs - 1 - tz * MinuteMs

\* a < b on two Dates; a comparison with an Invalid Date is false
DateLess(a, b) == a # NaN /\ b # NaN /\ a.v < b.v

withinDateRange(dateStr, startStr, endStr, tz) ==
    IF ~Truthy(dateStr) THEN FALSE
    ELSE LET date == DateTime(dateStr)
             startDate == DateTime(startStr)
             endDate == IF DateTime(endStr) = NaN THEN NaN
                        ELSE Num(SetHoursEndOfDay(DateTime(endStr).v, tz))
         IN IF Truthy(startStr) /\ DateLess(date, startDate) THEN FALSE
            ELSE IF Truthy(endStr) /\ DateLess(endDate, date) THEN FALSE
            ELSE TRUE

(* The range test on its own: a time zone, a creation instant of a run     *)
(* (as handleRunLogSubmit stores it, or missing after an edit) and the two *)
(* bounds of the filter form (a day or null).                              *)

TimeZones == {0 - 300, 0, 120, 330}
CreatedDays == 2..4
ClockTimes == {0, 5400000, 43200000, 77400000, 86399999}
BoundDays == {3}

InitDateRange ==
    /\ CacheIdle
    /\ \E tz \in TimeZones,
          created \in {Undefined} \cup
                      {Str(IsoText(d, ms)) : d \in CreatedDays, ms \in ClockTimes},
          from \in {Null} \cup {Str(DayText(d)) : d \in BoundDays},
          to \in {Null} \cup {Str(DayText(d)) : d \in BoundDays} :
          fin = [tz |-> tz, createdAt |-> created, dateFrom |-> from, dateTo |-> to]
    /\ fout = NotRun

dateRangeStep ==
    /\ fout = NotRun
    /\ fout' = [value |-> withinDateRange(fin.createdAt, fin.dateFrom, fin.dateTo, fin.tz)]
    /\ UNCHANGED <<fin, cacheVars>>

SpecDateRange == InitDateRange /\ [][dateRangeStep]_vars

\* The local calendar day the run was created on
CreatedLocalDay == LocalDay(DateTime(fin.createdAt).v, fin.tz)
BoundDayOf(x) == DigitsVal(SubSeq(x.v, 9, 10))

\* C16: in every time zone, a run created at any local time on the dateTo day
\* passes the dateTo bound, a run created on a later local day fails it, and
\* a run created on a local day before dateFrom fails the dateFrom bound.
C16_LocalDayBounds ==
    (fout # NotRun /\ fin.createdAt # Undefined) =>
        /\ (fin.dateTo # Null /\ fin.dateFrom = Null
              /\ CreatedLocalDay = BoundDayOf(fin.dateTo)) => fout.value = TRUE
        /\ (fin.dateTo # Null /\ CreatedLocalDay > BoundDayOf(fin.dateTo))
              => fout.value = FALSE
        /\ (fin.dateFrom # Null /\ CreatedLocalDay < BoundDayOf(fin.dateFrom))
              => fout.value = FALSE

\* The same statement for the zone where local time is UTC
C16_BoundsInUtc == fin.tz = 0 => C16_LocalDayBounds

-----------------------------------------------------------------------------
(* The aggregator, aggregateRuns in stats.js (src/unnamed/part_001).  A    *)
(* count is a number like any other, so it is kept in thousandths too.     *)

\* a === b
StrictEqual(a, b) == ~StrictNotEqual(a, b)

\* list.find(x => x.id === id): the first such record, or undefined
FindById(list, id) ==
    IF \E i \in 1..Len(list) : StrictEqual(Field(list[i], "id"), id)
    THEN list[CHOOSE i \in 1..Len(list) :
                 /\ StrictEqual(Field(list[i], "id"), id)
                 /\ \A j \in 1..(i - 1) : ~StrictEqual(Field(list[j], "id"), id)]
    ELSE Undefined

\* The filter callback of aggregateRuns
PassesFilters(run, events, filters, tz) ==
    LET event == FindById(events, Field(run, "eventId"))
    IN IF /\ Truthy(Field(filters, "carId"))
          /\ StrictNotEqual(Field(run, "carId"), Field(filters, "carId"))
       THEN FALSE
       ELSE IF /\ Truthy(Field(filters, "trackId"))
               /\ \/ event = Undefined
                  \/ StrictNotEqual(Field(event, "trackId"), Field(filters, "trackId"))
       THEN FALSE
       ELSE IF /\ Truthy(Field(filters, "dateFrom")) \/ Truthy(Field(filters, "dateTo"))
               /\ ~withinDateRange(Field(run, "createdAt"), Field(filters, "dateFrom"),
                                   Field(filters, "dateTo"), tz)
       THEN FALSE
       ELSE IF /\ Truthy(Field(filters, "sessionType"))
               /\ StrictNotEqual(Field(run, "sessionType"), Field(filters, "sessionType"))
       THEN FALSE
       ELSE TRUE

\* runs.map(run => parseLap(run[key])).filter(lap => lap !== null)
ValidLaps(runs, key) ==
    SelectSeq([i \in 1..Len(runs) |-> parseLap(Field(runs[i], key))],
              LAMBDA lap : lap # Null)

\* Math.min(...laps) for a non-empty list of numbers
MinLap(laps) ==
    Num(CHOOSE m \in {laps[i].v : i \in 1..Len(laps)} :
            \A i \in 1..Len(laps) : m <= laps[i].v)

RECURSIVE SumLaps(_)
SumLaps(laps) ==
    IF laps = <<>> THEN 0 ELSE SumLaps(SubSeq(laps, 1, Len(laps) - 1)) + laps[Len(laps)].v

RECURSIVE Gcd(_, _)
Gcd(a, b) == IF b = 0 THEN a ELSE Gcd(b, a % b)

\* a / b for a >= 0 in thousandths and an integer b > 0: the number itself
\* when it is a whole count of thousandths, and otherwise with the exact
\* remainder as a fraction in lowest terms.
Quotient(a, b) ==
    IF a % b = 0 THEN Num(a \div b)
    ELSE [t |-> "number", v |-> a \div b,
          rest |-> <<(a % b) \div Gcd(a % b, b), b \div Gcd(a % b, b)>>]

\* laps.reduce((sum, lap) => sum + lap, 0) / laps.length
MeanLap(laps) == Quotient(SumLaps(laps), Len(laps))

\* Mutant: the mean of the average laps never falls back to the best laps.
Kpis_noFallback(runs, bestLapTimes, avgLapTimes) ==
    [bestLapMin |-> IF Len(bestLapTimes) > 0 THEN MinLap(bestLapTimes) ELSE Null,
     avgLapMean |-> IF Len(avgLapTimes) > 0 THEN MeanLap(avgLapTimes) ELSE Null,
     runCount |-> Num(Len(runs) * Scale),
     eventCount |->
         Num(Cardinality({e \in {Field(runs[i], "eventId") : i \in 1..Len(runs)} :
                             Truthy(e)}) * Scale)]

\* Mutant: without a valid lap the KPIs are 0 instead of null.
Kpis_zeroForNone(runs, bestLapTimes, avgLapTimes) ==
    [bestLapMin |-> IF Len(bestLapTimes) > 0 THEN MinLap(bestLapTimes) ELSE Num(0),
     avgLapMean |-> IF Len(avgLapTimes) > 0 THEN MeanLap(avgLapTimes)
                    ELSE IF Len(bestLapTimes) > 0 THEN MeanLap(bestLapTimes)
                    ELSE Num(0),
     runCount |-> Num(Len(runs) * Scale),
     eventCount |->
         Num(Cardinality({e \in {Field(runs[i], "eventId") : i \in 1..Len(runs)} :
                             Truthy(e)}) * Scale)]

\* The KPI object of calculateKPIs, from its two lists of valid laps
Kpis(runs, bestLapTimes, avgLapTimes) ==
    [bestLapMin |-> IF Len(bestLapTimes) > 0 THEN MinLap(bestLapTimes) ELSE Null,
     avgLapMean |-> IF Len(avgLapTimes) > 0 THEN MeanLap(avgLapTimes)
                    ELSE IF Len(bestLapTimes) > 0 THEN MeanLap(bestLapTimes)
                    ELSE Null,
     runCount |-> Num(Len(runs) * Scale),
     eventCount |->
         Num(Cardinality({e \in {Field(runs[i], "eventId") : i \in 1..Len(runs)} :
                             Truthy(e)}) * Scale)]

calculateKPIs(runs) == Kpis(runs, ValidLaps(runs, "bestLap"), ValidLaps(runs, "avgLap"))

\* The key of a local calendar day, or null
dateKeyFromLocal(dateStr, tz) ==
    IF ~Truthy(dateStr) THEN Null
    ELSE IF IsStr(dateStr) /\ IsDayText(dateStr.v) THEN dateStr
    ELSE IF DateTime(dateStr) = NaN THEN Null
    ELSE Str(DayText(LocalDay(DateTime(dateStr).v, tz)))

NoDate == [t |-> "nodate"]
NullText == Str(<<"n", "u", "l", "l">>)

\* The property name a run is grouped under in runsByDate: the local day of
\* its event's date ("null" when that is no date), else the day its
\* createdAt names in UTC; NoDate for a run that is skipped, Rejected when
\* toISOString throws on an Invalid Date.
TrendKey(run, events, tz) ==
    LET event == FindById(events, Field(run, "eventId"))
    IN IF event # Undefined /\ Truthy(Field(event, "date"))
       THEN IF dateKeyFromLocal(Field(event, "date"), tz) = Null THEN NullText
            ELSE dateKeyFromLocal(Field(event, "date"), tz)
       ELSE IF Truthy(Field(run, "createdAt"))
       THEN IF DateTime(Field(run, "createdAt")) = NaN THEN Rejected
            ELSE Str(DayText((DateTime(Field(run, "createdAt")).v \div DayMs) + 1))
       ELSE NoDate

\* new Date(a.x) - new Date(b.x); sort reads a NaN result as 0.
CompareTrendPoints(a, b) ==
    IF DateTime(a.x) = NaN \/ DateTime(b.x) = NaN THEN 0
    ELSE DateTime(a.x).v - DateTime(b.x).v

InsertTrendPoint(sorted, p) ==
    LET k == CHOOSE n \in 0..Len(sorted) :
                 /\ \A i \in 1..n : CompareTrendPoints(sorted[i], p) <= 0
                 /\ (n = Len(sorted) \/ CompareTrendPoints(sorted[n + 1], p) > 0)
    IN SubSeq(sorted, 1, k) \o <<p>> \o SubSeq(sorted, k + 1, Len(sorted))

\* trendPoints.sort(...), a stable sort
RECURSIVE SortTrendPoints(_)
SortTrendPoints(points) ==
    IF points = <<>> THEN <<>>
    ELSE InsertTrendPoint(SortTrendPoints(SubSeq(points, 1, Len(points) - 1)),
                          points[Len(points)])

\* A point of the series, from the two lists of valid laps of its day
Point(dateKey, bestLaps, avgLaps) ==
    [x |-> dateKey,
     bestLap |-> IF Len(bestLaps) > 0 THEN MinLap(bestLaps) ELSE Null,
     avgLap |-> IF Len(avgLaps) > 0 THEN MeanLap(avgLaps) ELSE Null]

TrendPoint(dateKey, dateRuns) ==
    Point(dateKey, ValidLaps(dateRuns, "bestLap"), ValidLaps(dateRuns, "avgLap"))

\* new Date(run.createdAt).toISOString() throws a RangeError
TrendThrows(runs, events, tz) ==
    \E i \in 1..Len(runs) : TrendKey(runs[i], events, tz) = Rejected

\* Mutant: the points stay in the order their days were first met.
buildTrendSeries_unsorted(runs, events, tz) ==
    LET keyOf == [i \in 1..Len(runs) |-> TrendKey(runs[i], events, tz)]
        keys == Distinct(SelectSeq(keyOf, LAMBDA k : k # NoDate))
    IN IF TrendThrows(runs, events, tz) THEN Rejected
       ELSE [j \in 1..Len(keys) |->
                TrendPoint(keys[j],
                           SelectSeq(runs, LAMBDA r : TrendKey(r, events, tz) = keys[j]))]

buildTrendSeries(runs, events, tz) ==
    LET keyOf == [i \in 1..Len(runs) |-> TrendKey(runs[i], events, tz)]
        keys == Distinct(SelectSeq(keyOf, LAMBDA k : k # NoDate))
    IN IF TrendThrows(runs, events, tz) THEN Rejected
       ELSE SortTrendPoints(
              [j \in 1..Len(keys) |->
                  TrendPoint(keys[j],
                             SelectSeq(runs, LAMBDA r : TrendKey(r, events, tz) = keys[j]))])

\* The letters of the track names of this model, as String.prototype.
\* localeCompare orders them: by letter first, and between two names with the
\* same letters the one with the first lower-case difference comes first.
LetterRank(c) ==
    CASE c \in {"a", "A"} -> 1 [] c \in {"b", "B"} -> 2 [] c \in {"c", "C"} -> 3
      [] OTHER -> 0
IsUpper(c) == c \in {"A", "B", "C"}

RECURSIVE CompareLetters(_, _)
CompareLetters(a, b) ==
    IF a = <<>> /\ b = <<>> THEN 0
    ELSE IF a = <<>> THEN 0 - 1
    ELSE IF b = <<>> THEN 1
    ELSE IF LetterRank(a[1]) # LetterRank(b[1]) THEN LetterRank(a[1]) - LetterRank(b[1])
    ELSE CompareLetters(Drop(a, 1), Drop(b, 1))

RECURSIVE CompareCase(_, _)
CompareCase(a, b) ==
    IF a = <<>> \/ b = <<>> THEN 0
    ELSE IF IsUpper(a[1]) = IsUpper(b[1]) THEN CompareCase(Drop(a, 1), Drop(b, 1))
    ELSE IF IsUpper(a[1]) THEN 1 ELSE 0 - 1

\* a.localeCompare(b) on two texts
localeCompare(a, b) ==
    IF CompareLetters(a, b) # 0 THEN CompareLetters(a, b) ELSE CompareCase(a, b)

\* (a.trackName || '').localeCompare(b.trackName || '')
CompareTrackRows(a, b) ==
    localeCompare(OrElse(a.trackName, Str(<<>>)).v, OrElse(b.trackName, Str(<<>>)).v)

InsertTrackRow(sorted, r) ==
    LET k == CHOOSE n \in 0..Len(sorted) :
                 /\ \A i \in 1..n : CompareTrackRows(sorted[i], r) <= 0
                 /\ (n = Len(sorted) \/ CompareTrackRows(sorted[n + 1], r) > 0)
    IN SubSeq(sorted, 1, k) \o <<r>> \o SubSeq(sorted, k + 1, Len(sorted))

\* trackSummary.sort(...), a stable sort
RECURSIVE SortTrackRows(_)
SortTrackRows(rows) ==
    IF rows = <<>> THEN <<>>
    ELSE InsertTrackRow(SortTrackRows(SubSeq(rows, 1, Len(rows) - 1)), rows[Len(rows)])

\* The track a run is counted under: undefined when its event is not found
\* or names no track, or when that track is not found.
TrackOfRun(run, events, tracks) ==
    LET event == FindById(events, Field(run, "eventId"))
    IN IF event = Undefined \/ ~Truthy(Field(event, "trackId")) THEN Undefined
       ELSE FindById(tracks, Field(event, "trackId"))

\* A row of the summary, from the two lists of valid laps of its track
Row(track, bestLaps, avgLaps, runCount) ==
    [trackId |-> Field(track, "id"),
     trackName |-> Field(track, "name"),
     bestLapMin |-> IF Len(bestLaps) > 0 THEN MinLap(bestLaps) ELSE Null,
     avgLapMean |-> IF Len(avgLaps) > 0 THEN MeanLap(avgLaps) ELSE Null,
     runCount |-> Num(runCount * Scale)]

TrackRow(track, trackRuns) ==
    Row(track, ValidLaps(trackRuns, "bestLap"), ValidLaps(trackRuns, "avgLap"),
        Len(trackRuns))

\* Mutant: a run whose track is not found is counted under the first track.
calculateByTrack_countsUnresolved(runs, events, tracks) ==
    LET home(r) == IF TrackOfRun(r, events, tracks) = Undefined /\ tracks # <<>>
                   THEN tracks[1] ELSE TrackOfRun(r, events, tracks)
        trackOf == [i \in 1..Len(runs) |-> home(runs[i])]
        found == Distinct(SelectSeq(trackOf, LAMBDA t : t # Undefined))
    IN SortTrackRows(
         [j \in 1..Len(found) |->
             TrackRow(found[j], SelectSeq(runs, LAMBDA r : home(r) = found[j]))])

calculateByTrack(runs, events, tracks) ==
    LET trackOf == [i \in 1..Len(runs) |-> TrackOfRun(runs[i], events, tracks)]
        found == Distinct(SelectSeq(trackOf, LAMBDA t : t # Undefined))
    IN SortTrackRows(
         [j \in 1..Len(found) |->
             TrackRow(found[j],
                      SelectSeq(runs, LAMBDA r : TrackOfRun(r, events, tracks) = found[j]))])

\* Mutant: a run passes when any one of the filters lets it through.
aggregateRuns_anyFilter(runs, events, tracks, filters, tz) ==
    LET only(key) == MkRec(<<<<key, Field(filters, key)>>>>)
        range == MkRec(<<<<"dateFrom", Field(filters, "dateFrom")>>,
                         <<"dateTo", Field(filters, "dateTo")>>>>)
        filteredRuns ==
            SelectSeq(runs, LAMBDA r :
                \/ PassesFilters(r, events, filters, tz)
                \/ Truthy(Field(filters, "carId"))
                     /\ PassesFilters(r, events, only("carId"), tz)
                \/ Truthy(Field(filters, "trackId"))
                     /\ PassesFilters(r, events, only("trackId"), tz)
                \/ Truthy(Field(filters, "sessionType"))
                     /\ PassesFilters(r, events, only("sessionType"), tz)
                \/ (Truthy(Field(filters, "dateFrom")) \/ Truthy(Field(filters, "dateTo")))
                     /\ PassesFilters(r, events, range, tz))
    IN IF TrendThrows(filteredRuns, events, tz) THEN Rejected
       ELSE [filteredRuns |-> filteredRuns,
             kpis |-> calculateKPIs(filteredRuns),
             trendSeries |-> buildTrendSeries(filteredRuns, events, tz),
             byTrack |-> calculateByTrack(filteredRuns, events, tracks)]

\* aggregateRuns({ runs, events, tracks, cars, filters }) in a browser whose
\* local zone is tz; cars is not read.
\* Mutant: the KPIs are taken over all runs, not over the filtered ones.
aggregateRuns_kpisOfAllRuns(runs, events, tracks, filters, tz) ==
    LET filteredRuns == SelectSeq(runs, LAMBDA r : PassesFilters(r, events, filters, tz))
    IN IF TrendThrows(filteredRuns, events, tz) THEN Rejected
       ELSE [filteredRuns |-> filteredRuns,
             kpis |-> calculateKPIs(runs),
             trendSeries |-> buildTrendSeries(filteredRuns, events, tz),
             byTrack |-> calculateByTrack(filteredRuns, events, tracks)]

aggregateRuns(runs, events, tracks, filters, tz) ==
    LET filteredRuns == SelectSeq(runs, LAMBDA r : PassesFilters(r, events, filters, tz))
    IN IF TrendThrows(filteredRuns, events, tz) THEN Rejected
       ELSE [filteredRuns |-> filteredRuns,
             kpis |-> calculateKPIs(filteredRuns),
             trendSeries |-> buildTrendSeries(filteredRuns, events, tz),
             byTrack |-> calculateByTrack(filteredRuns, events, tracks)]

(* The filter of the aggregator on its own: up to MaxAggRuns runs that     *)
(* differ in what the filters read, two events on two tracks, and every    *)
(* combination of the filters of the analytics page.                       *)

MaxAggRuns == 2     \* runs handed to aggregateRuns

CarId2 == <<"c", "2">>
TrackId9 == <<"t", "9">>
Practice == Str(<<"p", "r", "a", "c", "t", "i", "c", "e">>)
Race == Str(<<"r", "a", "c", "e">>)
Lap10 == Str(<<"1", "0">>)
Lap11 == Str(<<"1", "1">>)
Lap12 == Str(<<"1", "2", ".", "5">>)
NoonMs == 12 * 3600 * 1000

AggEvent(id, trackId, date) == [id |-> Str(id), trackId |-> Str(trackId), date |-> date]
AggTrack(id, name) == [id |-> Str(id), name |-> Str(name)]

FilterRun(carId, sessionType, eventId, createdAt) ==
    MkRec(<<<<"carId", Str(carId)>>, <<"eventId", Str(eventId)>>,
            <<"sessionType", sessionType>>, <<"createdAt", createdAt>>,
            <<"bestLap", Lap10>>, <<"avgLap", Lap11>>>>)

\* What handleRunLogSubmit stores, without the id: a practice run of the
\* first car, or one of the second car, or a race of the first car; at the
\* first event on 3 May, or at another event (the second, or one that is not
\* stored), or on 4 May; and a run that lost its createdAt by an edit.
FilterRunBodies ==
    {FilterRun(cs[1], cs[2], ea[1], ea[2]) :
        cs \in {<<CarId1, Practice>>, <<CarId2, Practice>>, <<CarId1, Race>>},
        ea \in {<<EventId1, Str(IsoText(3, NoonMs))>>,
                <<EventId2, Str(IsoText(3, NoonMs))>>,
                <<EventId9, Str(IsoText(3, NoonMs))>>,
                <<EventId1, Str(IsoText(4, NoonMs))>>}}
      \cup {FilterRun(CarId1, Practice, EventId1, Absent)}

InitFilter ==
    /\ CacheIdle
    /\ \E runs \in RunLists(FilterRunBodies, MaxAggRuns),
          carId \in {Null, Str(CarId1)},
          trackId \in {Null, Str(TrackId1)},
          dateFrom \in {Null, Str(DayText(3))},
          dateTo \in {Null, Str(DayText(3))},
          sessionType \in {Null, Practice} :
          fin = [runs |-> runs,
                 events |-> <<AggEvent(EventId1, TrackId1, Date1),
                              AggEvent(EventId2, TrackId2, Date2)>>,
                 tracks |-> <<AggTrack(TrackId1, <<"a">>), AggTrack(TrackId2, <<"B">>)>>,
                 filters |-> [carId |-> carId, trackId |-> trackId, dateFrom |-> dateFrom,
                              dateTo |-> dateTo, sessionType |-> sessionType],
                 tz |-> 0]
    /\ fout = NotRun

aggregate ==
    /\ fout = NotRun
    /\ fout' = aggregateRuns(fin.runs, fin.events, fin.tracks, fin.filters, fin.tz)
    /\ UNCHANGED <<fin, cacheVars>>

SpecFilter == InitFilter /\ [][aggregate]_vars

Unset(v) == v \in {Null, Undefined, Str(<<>>)}

\* What the claim asks of a run for it to be kept
Matches(run) ==
    /\ Unset(Field(fin.filters, "carId"))
         \/ Field(run, "carId") = Field(fin.filters, "carId")
    /\ Unset(Field(fin.filters, "trackId"))
         \/ \E e \in Range(fin.events) :
               /\ Field(e, "id") = Field(run, "eventId")
               /\ Field(e, "trackId") = Field(fin.filters, "trackId")
    /\ (Unset(Field(fin.filters, "dateFrom")) /\ Unset(Field(fin.filters, "dateTo")))
         \/ withinDateRange(Field(run, "createdAt"), Field(fin.filters, "dateFrom"),
                            Field(fin.filters, "dateTo"), fin.tz)
    /\ Unset(Field(fin.filters, "sessionType"))
         \/ Field(run, "sessionType") = Field(fin.filters, "sessionType")

EventFound(run) == \E e \in Range(fin.events) : Field(e, "id") = Field(run, "eventId")

\* C15: filteredRuns holds, in their order, exactly the runs that pass the
\* car filter and the track filter and the date filter and the session
\* filter, an unset filter passing every run; with a track filter set, no run
\* whose event is not found is kept.
C15_FiltersCombineWithAnd ==
    fout # NotRun =>
        /\ fout.filteredRuns = SelectSeq(fin.runs, Matches)
        /\ ~Unset(Field(fin.filters, "trackId")) =>
              \A r \in Range(fout.filteredRuns) : EventFound(r)

\* With all four filters set, one run was kept and another, whose event is
\* not stored, was dropped.
C15_Witness ==
    /\ fout # NotRun
    /\ \A k \in {"carId", "trackId", "dateFrom", "sessionType"} :
          ~Unset(Field(fin.filters, k))
    /\ Len(fout.filteredRuns) = 1
    /\ \E r \in Range(fin.runs) : ~EventFound(r)

(* The summaries of the aggregator: up to MaxAggRuns runs that differ in   *)
(* their event (the first, the second, one that is not stored, none),      *)
(* their createdAt and their lap texts; a first event on 1 May at the      *)
(* first track and a second event (the same day at the second track, on    *)
(* 3 May at the first track, or without a date at a track that is not      *)
(* stored), or empty stores; no filter, or a dateTo of 3 May; a browser in  *)
(* UTC or in UTC-5.                                                        *)

\* 02:00, when it is still the day before in a zone west of UTC
EarlyMs == 2 * 3600 * 1000

SummaryRun(eventId, createdAt, bestLap, avgLap) ==
    MkRec(<<<<"carId", Str(CarId1)>>, <<"eventId", eventId>>, <<"sessionType", Practice>>,
            <<"createdAt", createdAt>>, <<"bestLap", bestLap>>, <<"avgLap", avgLap>>>>)

SummaryRunBodies ==
    {SummaryRun(ea[1], ea[2], laps[1], laps[2]) :
        ea \in {<<Str(EventId1), Str(IsoText(2, NoonMs))>>,
                <<Str(EventId2), Str(IsoText(2, NoonMs))>>,
                <<Str(EventId9), Str(IsoText(4, EarlyMs))>>,
                <<Null, Absent>>},
        laps \in {<<Lap10, Lap11>>, <<Lap10, Str(<<>>)>>, <<Lap12, Str(<<>>)>>,
                  <<Str(<<>>), Str(<<>>)>>}}

SummaryTracks == <<AggTrack(TrackId1, <<"a">>), AggTrack(TrackId2, <<"B">>)>>

SummaryStores ==
    {[events |-> <<AggEvent(EventId1, TrackId1, Date1), AggEvent(EventId2, dt[2], dt[1])>>,
      tracks |-> SummaryTracks] :
        dt \in {<<Date1, TrackId2>>, <<Str(DayText(3)), TrackId1>>,
                <<Str(<<>>), TrackId9>>}}
      \cup {[events |-> <<>>, tracks |-> <<>>]}

InitSummary ==
    /\ CacheIdle
    /\ \E runs \in RunLists(SummaryRunBodies, MaxAggRuns),
          stores \in SummaryStores,
          dateTo \in {Null, Str(DayText(3))},
          tz \in {0 - 300, 0} :
          fin = [runs |-> runs, events |-> stores.events, tracks |-> stores.tracks,
                 filters |-> [carId |-> Null, trackId |-> Null, dateFrom |-> Null,
                              dateTo |-> dateTo, sessionType |-> Null],
                 tz |-> tz]
    /\ fout = NotRun

SpecSummary == InitSummary /\ [][aggregate]_vars

(* Statistics, stated over the positions of a list of runs *)

\* The valid laps (field key) of the runs at the positions S, with their
\* positions
LapsAt(runs, S, key) ==
    {p \in {<<i, parseLap(Field(runs[i], key))>> : i \in S} : p[2] # Null}

RECURSIVE SumOfLaps(_)
SumOfLaps(pairs) ==
    IF pairs = {} THEN 0
    ELSE LET p == CHOOSE q \in pairs : TRUE IN p[2].v + SumOfLaps(pairs \ {p})

\* x is the least of the laps, or null when there is none
IsMinOf(x, pairs) ==
    IF pairs = {} THEN x = Null
    ELSE /\ \E p \in pairs : x = p[2]
         /\ \A p \in pairs : x.v <= p[2].v

\* x is the arithmetic mean of the laps, or null when there is none
IsMeanOf(x, pairs) ==
    IF pairs = {} THEN x = Null
    ELSE /\ x # Null
         /\ LET rest == IF "rest" \in DOMAIN x THEN x.rest ELSE <<0, 1>>
            IN (x.v * rest[2] + rest[1]) * Cardinality(pairs) = SumOfLaps(pairs) * rest[2]

Kept == fout.filteredRuns
AllKept == 1..Len(Kept)

\* C17: over the filtered runs, bestLapMin is the least valid bestLap or
\* null; avgLapMean is the mean of the valid avgLaps, or with none of those
\* the mean of the valid bestLaps, or null; runCount is the number of filtered
\* runs and eventCount the number of distinct eventIds that are not null.
C17_Kpis ==
    fout # NotRun =>
        /\ IsMinOf(fout.kpis.bestLapMin, LapsAt(Kept, AllKept, "bestLap"))
        /\ IF LapsAt(Kept, AllKept, "avgLap") # {}
           THEN IsMeanOf(fout.kpis.avgLapMean, LapsAt(Kept, AllKept, "avgLap"))
           ELSE IsMeanOf(fout.kpis.avgLapMean, LapsAt(Kept, AllKept, "bestLap"))
        /\ fout.kpis.runCount = Num(Len(Kept) * Scale)
        /\ fout.kpis.eventCount =
             Num(Cardinality({Field(Kept[i], "eventId") : i \in AllKept}
                               \ {Null, Undefined}) * Scale)

\* Two filtered runs with different valid best laps and no valid average lap,
\* one of them without an event: the mean fell back to the best laps.
C17_Witness ==
    /\ fout # NotRun
    /\ Cardinality({p[2] : p \in LapsAt(Kept, AllKept, "bestLap")}) = 2
    /\ LapsAt(Kept, AllKept, "avgLap") = {}
    /\ fout.kpis.avgLapMean # Null
    /\ \E i \in AllKept : Field(Kept[i], "eventId") = Null

\* C18: when no run matches the filters, filteredRuns, trendSeries and
\* byTrack are empty and the KPIs are null, null, 0 and 0, whatever the
\* stores hold.
C18_NothingMatches ==
    (fout # NotRun /\ \A r \in Range(fin.runs) : ~Matches(r)) =>
        /\ fout.filteredRuns = <<>>
        /\ fout.kpis = [bestLapMin |-> Null, avgLapMean |-> Null,
                        runCount |-> Num(0), eventCount |-> Num(0)]
        /\ fout.trendSeries = <<>>
        /\ fout.byTrack = <<>>

\* Runs with laps and stored events and tracks were given, and none matched.
C18_Witness ==
    /\ fout # NotRun
    /\ Len(fin.runs) = MaxAggRuns
    /\ \A r \in Range(fin.runs) : ~Matches(r) /\ parseLap(Field(r, "bestLap")) # Null
    /\ \E r \in Range(fin.runs) : EventFound(r)
    /\ fin.tracks # <<>>
    /\ fout.filteredRuns = <<>>

NoDay == [t |-> "noday"]
HasValue(v) == v \notin {Undefined, Null, Str(<<>>)}

\* The day a run counts for: the date of its event when that event is
\* stored and has a date, else the day its createdAt names, else none
TrendDay(run) ==
    LET found == {e \in Range(fin.events) : Field(e, "id") = Field(run, "eventId")}
    IN IF \E e \in found : HasValue(Field(e, "date"))
       THEN Field(CHOOSE e \in found : HasValue(Field(e, "date")), "date")
       ELSE IF HasValue(Field(run, "createdAt"))
       THEN Str(SubSeq(Field(run, "createdAt").v, 1, 10))
       ELSE NoDay

KeptOn(day) == {k \in AllKept : TrendDay(Kept[k]) = day}

\* C19: trendSeries has exactly one point per day that a filtered run counts
\* for (the date of its event, or without one the day of its createdAt), the
\* points strictly ascending by day; a point's bestLap is the least valid
\* bestLap of its day's runs and its avgLap the mean of their valid avgLaps,
\* each null when there is none.
C19_TrendSeries ==
    fout # NotRun =>
        LET points == fout.trendSeries
            days == {TrendDay(Kept[k]) : k \in AllKept} \ {NoDay}
        IN /\ Len(points) = Cardinality(days)
           /\ {points[i].x : i \in 1..Len(points)} = days
           /\ \A i \in 1..(Len(points) - 1) :
                 BoundDayOf(points[i].x) < BoundDayOf(points[i + 1].x)
           /\ \A i \in 1..Len(points) :
                 /\ IsMinOf(points[i].bestLap, LapsAt(Kept, KeptOn(points[i].x), "bestLap"))
                 /\ IsMeanOf(points[i].avgLap, LapsAt(Kept, KeptOn(points[i].x), "avgLap"))

\* Two points, the later day met first, one day taken from an event and the
\* other from a createdAt.
C19_Witness ==
    /\ fout # NotRun
    /\ Len(fout.trendSeries) = 2
    /\ TrendDay(Kept[1]) = fout.trendSeries[2].x
    /\ \E k \in AllKept : ~EventFound(Kept[k]) /\ TrendDay(Kept[k]) # NoDay
    /\ \E k \in AllKept : EventFound(Kept[k])

\* The tracks a run resolves to through its event
TracksOfRun(run) ==
    {t \in Range(fin.tracks) :
        \E e \in Range(fin.events) :
            /\ Field(e, "id") = Field(run, "eventId")
            /\ Field(e, "trackId") = Field(t, "id")}

KeptAt(trackId) ==
    {k \in AllKept : \E t \in TracksOfRun(Kept[k]) : Field(t, "id") = trackId}

\* C20: byTrack has exactly one row per track that a filtered run resolves
\* to through its event; the row carries the number of those runs, their least
\* valid bestLap and the mean of their valid avgLaps (each null when there is
\* none, with no fallback to bestLap); the rows ascend by track name.
C20_ByTrack ==
    fout # NotRun =>
        LET rows == fout.byTrack
            resolved == UNION {TracksOfRun(Kept[k]) : k \in AllKept}
        IN /\ Len(rows) = Cardinality(resolved)
           /\ {[trackId |-> rows[i].trackId, trackName |-> rows[i].trackName] :
                  i \in 1..Len(rows)}
                = {[trackId |-> Field(t, "id"), trackName |-> Field(t, "name")] :
                      t \in resolved}
           /\ \A i \in 1..(Len(rows) - 1) :
                 localeCompare(rows[i].trackName.v, rows[i + 1].trackName.v) <= 0
           /\ \A i \in 1..Len(rows) :
                 /\ rows[i].runCount = Num(Cardinality(KeptAt(rows[i].trackId)) * Scale)
                 /\ IsMinOf(rows[i].bestLapMin,
                            LapsAt(Kept, KeptAt(rows[i].trackId), "bestLap"))
                 /\ IsMeanOf(rows[i].avgLapMean,
                             LapsAt(Kept, KeptAt(rows[i].trackId), "avgLap"))

\* Two rows, the track of the second row met first, and a row with a best
\* lap but no average.
C20_Witness ==
    /\ fout # NotRun
    /\ Len(fout.byTrack) = 2
    /\ 1 \in KeptAt(fout.byTrack[2].trackId)
    /\ \E i \in 1..2 : fout.byTrack[i].bestLapMin # Null /\ fout.byTrack[i].avgLapMean = Null

\* A filtered run that resolves to no track, next to a row of another run
C20_WitnessUnresolved ==
    /\ fout # NotRun
    /\ Len(fout.byTrack) = 1
    /\ \E k \in AllKept : TracksOfRun(Kept[k]) = {} /\ EventFound(Kept[k])

-----------------------------------------------------------------------------
(* The correlator on longer run lists: runs of two car and track pairs     *)
(* whose template keys coincide, runs without a track, without a setup,    *)
(* without a lap time, without an event date, and with a setup that is in  *)
(* no store.                                                                *)

MaxChangeRuns == 3  \* enriched runs of any kind handed to analyzeSetupChanges
MaxSameDayRuns == 4 \* enriched runs of one car, track and day handed to it

CarIdC == <<"c">>
CarIdC1 == <<"c", "_", "1">>
TrackIdT == <<"t">>
TrackId1T == <<"1", "_", "t">>
SetupId9 == <<"s", "9">>

ChangeRun(car, track, setup, lap, date, created) ==
    [carId |-> Str(car), trackId |-> track, setupId |-> setup, bestLapNum |-> lap,
     eventDate |-> date, createdAt |-> Str(IsoText(created, NoonMs))]

ChangeRunBodies ==
    {ChangeRun(CarIdC1, Str(TrackIdT), Str(SetupId1), Num(15500), Date1, 1),
     ChangeRun(CarIdC1, Str(TrackIdT), Str(SetupId2), Num(15100), Date1, 1),
     ChangeRun(CarIdC, Str(TrackId1T), Str(SetupId1), Num(15100), Date2, 2),
     ChangeRun(CarIdC1, Null, Str(SetupId2), Num(15500), Null, 3),
     ChangeRun(CarIdC1, Null, Str(SetupId1), Num(15100), Date1, 1),
     ChangeRun(CarIdC1, Str(TrackIdT), Null, Num(15100), Date2, 2),
     ChangeRun(CarIdC1, Str(TrackIdT), Str(SetupId1), Null, Date2, 2),
     ChangeRun(CarIdC1, Str(TrackIdT), Str(SetupId9), Num(15500), Date2, 2)}

\* Runs of one car, track and day, with two setups and two lap times.
SameDayRunBodies ==
    {ChangeRun(CarIdC1, Str(TrackIdT), Str(SetupId1), Num(15500), Date1, 1),
     ChangeRun(CarIdC1, Str(TrackIdT), Str(SetupId2), Num(15100), Date1, 1)}

ChangeContext ==
    [setupsById |-> MapById(<<SetupA(SetupId1), SetupB(SetupId2)>>),
     tracksById |-> MapById(<<[id |-> Str(TrackIdT), name |-> NameA]>>)]

InitChanges ==
    /\ CacheIdle
    /\ \E rl \in RunLists(ChangeRunBodies, MaxChangeRuns)
                   \cup RunLists(SameDayRunBodies, MaxSameDayRuns) :
          fin = [runs |-> rl, analyticsContext |-> ChangeContext]
    /\ fout = NotRun

SpecChanges == InitChanges /\ [][correlate]_vars

\* The runs analyzeSetupChanges looks at: those with a setup and a lap time.
Eligible ==
    {i \in 1..Len(fin.runs) :
        Field(fin.runs[i], "setupId") # Null /\ Field(fin.runs[i], "bestLapNum") # Null}

\* The date a run is ordered by: its eventDate, its createdAt without one.
WhenText(i) ==
    IF Field(fin.runs[i], "eventDate") # Null THEN Field(fin.runs[i], "eventDate")
    ELSE Field(fin.runs[i], "createdAt")

When(i) == DateValue(WhenText(i)).v

SameGroup(i, j) == GroupKey(fin.runs[i]) = GroupKey(fin.runs[j])

\* i comes before j in the order of their group: by date, runs of one date in
\* the order they were handed in.
Before(i, j) == When(i) < When(j) \/ (When(i) = When(j) /\ i < j)

Adjacent(i, j) ==
    /\ SameGroup(i, j) /\ Before(i, j)
    /\ ~ \E k \in Eligible : SameGroup(i, k) /\ Before(i, k) /\ Before(k, j)

\* The pairs <<previous, current>> that are due a comparison.
ChangedPairs ==
    {p \in Eligible \X Eligible :
        /\ Adjacent(p[1], p[2])
        /\ Field(fin.runs[p[1]], "setupId") # Field(fin.runs[p[2]], "setupId")
        /\ Field(fin.runs[p[1]], "setupId") \in DOMAIN fin.analyticsContext.setupsById
        /\ Field(fin.runs[p[2]], "setupId") \in DOMAIN fin.analyticsContext.setupsById}

GroupFirst(i) == CHOOSE k \in Eligible : SameGroup(i, k) /\ \A m \in Eligible : SameGroup(i, m) => k <= m

\* The place of a pair's comparison in the result: groups in the order of
\* their first run, the pairs of a group in the order of the group.
PairRank(p) ==
    1 + Cardinality({q \in ChangedPairs :
                        \/ GroupFirst(q[2]) < GroupFirst(p[2])
                        \/ SameGroup(q[2], p[2]) /\ Before(q[2], p[2])})

StartsWith(text, prefix) ==
    Len(text) >= Len(prefix) /\ SubSeq(text, 1, Len(prefix)) = prefix

ImprovedBy == <<"I", "m", "p", "r", "o", "v", "e", "d", " ", "b", "y">>
SlowerBy == <<"S", "l", "o", "w", "e", "r", " ", "b", "y">>
NoChange == <<"N", "o", " ", "c", "h", "a", "n", "g", "e">>

LapDelta(p) == Field(fin.runs[p[2]], "bestLapNum").v - Field(fin.runs[p[1]], "bestLapNum").v

\* C21: analyzeSetupChanges looks only at runs with a setupId and a valid
\* bestLapNum; in each group, ordered by eventDate (createdAt without one),
\* it emits one comparison for exactly the adjacent pairs whose setupIds
\* differ and whose setups are both in setupsById; the comparison carries
\* bestLapDelta = current - previous, and its note starts 'Improved by' iff
\* the delta is negative, 'Slower by' iff it is positive, and is 'No change'
\* iff it is zero.
C21_ComparisonsOfAdjacentChanges ==
    fout # NotRun =>
        /\ Len(fout.comparisons) = Cardinality(ChangedPairs)
        /\ \A p \in ChangedPairs :
              LET c == fout.comparisons[PairRank(p)]
              IN /\ c.bestLapDelta = Num(LapDelta(p))
                 /\ c.date = WhenText(p[2])
                 /\ StartsWith(c.notes.v, ImprovedBy) <=> LapDelta(p) < 0
                 /\ StartsWith(c.notes.v, SlowerBy) <=> LapDelta(p) > 0
                 /\ c.notes.v = NoChange <=> LapDelta(p) = 0

\* Runs of one group give a comparison with a faster lap and one without a
\* change of lap time.
C21_Witness ==
    /\ fout # NotRun
    /\ \E n \in 1..Len(fout.comparisons) : fout.comparisons[n].notes.v = NoChange
    /\ \E n \in 1..Len(fout.comparisons) : fout.comparisons[n].bestLapDelta.v < 0

\* A run without a setup or without a lap time that lies between two
\* compared runs is passed over.
C21_WitnessPassedOver ==
    /\ fout # NotRun
    /\ \E p \in ChangedPairs : \E k \in (1..Len(fin.runs)) \ Eligible : p[1] < k /\ k < p[2]

\* The createdAt of a run without an eventDate puts it behind a run that was
\* handed in after it.
C21_WitnessCreatedAt ==
    /\ fout # NotRun
    /\ \E p \in ChangedPairs :
          Field(fin.runs[p[2]], "eventDate") = Null /\ p[2] < p[1]

\* C22: analyzeSetupChanges groups runs by the pair (carId, trackId): the
\* two runs of every emitted comparison have the same carId and the same
\* trackId, whatever the ids are (ids that contain '_' and runs whose
\* trackId is null included).
C22_ComparedRunsShareCarAndTrack ==
    fout # NotRun =>
        \A p \in ChangedPairs :
            /\ PairRank(p) \in 1..Len(fout.comparisons)
            /\ Field(fin.runs[p[1]], "carId") = Field(fin.runs[p[2]], "carId")
            /\ Field(fin.runs[p[1]], "trackId") = Field(fin.runs[p[2]], "trackId")

\* Two runs without a track are compared with each other.
C22_WitnessNoTrack ==
    /\ fout # NotRun
    /\ \E p \in ChangedPairs :
          /\ Field(fin.runs[p[1]], "trackId") = Null
          /\ Field(fin.runs[p[2]], "trackId") = Null

\* The comparisons whose changeCount lies in lo..hi.
Bucket(lo, hi) ==
    {n \in 1..Len(fout.comparisons) :
        fout.comparisons[n].changeCount >= lo /\ fout.comparisons[n].changeCount <= hi}

BucketOf(range) ==
    CASE range = "1-3" -> Bucket(1, 3)
      [] range = "4-10" -> Bucket(4, 10)
      [] range = "10+" -> (1..Len(fout.comparisons)) \ Bucket(0, 10)

RECURSIVE DeltaSum(_)
DeltaSum(S) ==
    IF S = {} THEN 0
    ELSE LET n == CHOOSE x \in S : TRUE
         IN fout.comparisons[n].bestLapDelta.v + DeltaSum(S \ {n})

Abs(x) == IF x < 0 THEN 0 - x ELSE x

\* text is the mean sum/count with a sign and three decimals: a '+' for a
\* mean of zero or more, a '-' below, then digits, a point and three digits
\* whose value is the thousandth nearest to the mean.
IsSignedMean(text, sum, count) ==
    /\ Len(text) >= 6
    /\ text[1] = (IF sum >= 0 THEN "+" ELSE "-")
    /\ text[Len(text) - 3] = "."
    /\ LET shown == ParseFloat(Tail(text))
       IN /\ IsNum(shown)
          /\ 2 * Abs(shown.v * count - Abs(sum)) <= count

\* C23: without comparisons no insight is returned; with one or two, exactly
\* one 'more data needed' insight; with three or more, exactly one
\* average-delta insight for each non-empty change-count bucket among 1-3,
\* 4-10 and 10+, every comparison is counted in exactly one bucket, and each
\* insight reports the mean bestLapDelta of its bucket with a sign and three
\* decimals, together with the number of comparisons of the bucket.
C23_Insights ==
    fout # NotRun =>
        LET count == Len(fout.comparisons)
            ranges == {"1-3", "4-10", "10+"}
            given == {fout.insights[k].range : k \in 1..Len(fout.insights)}
        IN /\ count = 0 => fout.insights = <<>>
           /\ count \in {1, 2} => fout.insights = <<[available |-> count]>>
           /\ count >= 3 =>
                 /\ \A k \in 1..Len(fout.insights) :
                       /\ fout.insights[k].range \in ranges
                       /\ \A m \in 1..Len(fout.insights) :
                             fout.insights[m].range = fout.insights[k].range => m = k
                       /\ fout.insights[k].comparisons
                            = Cardinality(BucketOf(fout.insights[k].range))
                       /\ IsSignedMean(fout.insights[k].avgDelta,
                                       DeltaSum(BucketOf(fout.insights[k].range)),
                                       Cardinality(BucketOf(fout.insights[k].range)))
                 /\ given = {r \in ranges : BucketOf(r) # {}}
                 /\ \A n \in 1..count : Cardinality({r \in ranges : n \in BucketOf(r)}) = 1

\* Three comparisons whose mean delta is below zero and is no whole number
\* of thousandths.
C23_Witness ==
    /\ fout # NotRun
    /\ Len(fout.comparisons) = 3
    /\ Len(fout.insights) = 1
    /\ DeltaSum(1..3) < 0
    /\ DeltaSum(1..3) % 3 # 0

C23_WitnessMoreDataNeeded ==
    /\ fout # NotRun
    /\ fout.insights = <<[available |-> 2]>>

\* Every comparison has more than ten changes.
C23_OnlyLargeChanges ==
    fout # NotRun => \A n \in 1..Len(fout.comparisons) : fout.comparisons[n].changeCount > 10

-----------------------------------------------------------------------------
(* The correlator applied to one set of runs in two orders                  *)

ReorderRunBodies ==
    SameDayRunBodies
      \cup {ChangeRun(CarIdC1, Str(TrackIdT), Str(SetupId1), Num(15100), Date2, 2)}

\* The orders of n things.
Orders(n) == {f \in [1..n -> 1..n] : \A i, j \in 1..n : f[i] = f[j] => i = j}

Reordered(runs, order) == [i \in 1..Len(runs) |-> runs[order[i]]]

InitReorder ==
    /\ CacheIdle
    /\ \E rl \in RunLists(ReorderRunBodies, MaxChangeRuns) : \E order \in Orders(Len(rl)) :
          fin = [runs |-> rl, order |-> order, analyticsContext |-> ChangeContext]
    /\ fout = NotRun

\* analyzeSetupChanges on the runs as handed in, and on the same runs in
\* the other order.
correlateReordered ==
    /\ fout = NotRun
    /\ fout' = [first |-> analyzeSetupChanges(fin.runs, fin.analyticsContext),
                second |-> analyzeSetupChanges(Reordered(fin.runs, fin.order),
                                               fin.analyticsContext)]
    /\ UNCHANGED <<fin, cacheVars>>

SpecReorder == InitReorder /\ [][correlateReordered]_vars

\* The number of comparisons of cs with bestLapDelta d.
DeltaCount(cs, d) == Cardinality({n \in 1..Len(cs) : cs[n].bestLapDelta = d})

SameDeltas(cs, ds) ==
    /\ Len(cs) = Len(ds)
    /\ \A n \in 1..Len(cs) : DeltaCount(cs, cs[n].bestLapDelta) = DeltaCount(ds, cs[n].bestLapDelta)

\* C27: the result of analyzeSetupChanges does not depend on the order of
\* the runs handed in: for two orders of the same runs (several runs of one
\* car and track with the same eventDate included) the comparisons carry
\* the same bestLapDelta values.
C27_OrderOfRunsIrrelevant ==
    fout # NotRun => SameDeltas(fout.first.comparisons, fout.second.comparisons)

\* No two runs of the list have the same date.
DatesDiffer ==
    \A i, j \in 1..Len(fin.runs) :
        Field(fin.runs[i], "eventDate") = Field(fin.runs[j], "eventDate") => i = j

\* Runs of different dates give the same comparisons in every order.
C27_OrderIrrelevantForDifferentDates ==
    fout # NotRun /\ DatesDiffer => fout.first.comparisons = fout.second.comparisons

C27_WitnessDifferentDates ==
    /\ fout # NotRun
    /\ DatesDiffer
    /\ Len(fin.runs) > 1
    /\ fin.order[1] # 1
    /\ fout.first.comparisons # <<>>

-----------------------------------------------------------------------------
(* The insight cards of the analytics page (src/sw.js buildInsightCards).   *)
(* A card keeps its title, the name or date it shows, and the number its    *)
(* detail line is formatted from.                                           *)

\* The first loop: the runs with a track and an average lap.
HasTrackAvg(run) ==
    /\ Truthy(Field(run, "trackId"))
    /\ Field(run, "avgLapNum") # Null /\ Field(run, "avgLapNum") # NaN

\* trackAgg: one entry per trackId, in the order the ids came, with the sum
\* and the number of the average laps.
TrackAgg(runs) ==
    LET with == SelectSeq(runs, HasTrackAvg)
        ids == Distinct([i \in 1..Len(with) |-> Field(with[i], "trackId")])
    IN [k \in 1..Len(ids) |->
          [trackId |-> ids[k],
           laps |-> LET own == SelectSeq(with, LAMBDA run : Field(run, "trackId") = ids[k])
                    IN [i \in 1..Len(own) |-> Field(own[i], "avgLapNum")]]]

\* sum1 / count1 < sum2 / count2
MeanLess(laps1, laps2) == SumLaps(laps1) * Len(laps2) < SumLaps(laps2) * Len(laps1)

\* One turn of trackAgg.forEach.
BestTrackStep(bestTrack, entry, track) ==
    IF bestTrack = Null \/ MeanLess(entry.laps, bestTrack.laps)
    THEN IF track # Undefined /\ Truthy(Field(track, "name"))
         THEN [name |-> Field(track, "name"), laps |-> entry.laps]
         ELSE bestTrack
    ELSE bestTrack

RECURSIVE BestTrack(_, _)
BestTrack(entries, tracksById) ==
    IF entries = <<>> THEN Null
    ELSE BestTrackStep(BestTrack(SubSeq(entries, 1, Len(entries) - 1), tracksById),
                       entries[Len(entries)],
                       MapLookup(tracksById, entries[Len(entries)].trackId))

\* carCounts: one entry per carId, in the order the ids came.
CarCounts(runs) ==
    LET with == SelectSeq(runs, LAMBDA run : Truthy(Field(run, "carId")))
        ids == Distinct([i \in 1..Len(with) |-> Field(with[i], "carId")])
    IN [k \in 1..Len(ids) |->
          [carId |-> ids[k],
           count |-> Len(SelectSeq(with, LAMBDA run : Field(run, "carId") = ids[k]))]]

\* Mutant: the first named car is kept, whatever its count.
TopCarStep_firstNamed(topCar, entry, car) ==
    IF car = Undefined \/ ~Truthy(Field(car, "name")) THEN topCar
    ELSE IF topCar = Null
    THEN [name |-> Field(car, "name"), count |-> entry.count]
    ELSE topCar

\* One turn of carCounts.forEach.
TopCarStep(topCar, entry, car) ==
    IF car = Undefined \/ ~Truthy(Field(car, "name")) THEN topCar
    ELSE IF topCar = Null \/ entry.count > topCar.count
    THEN [name |-> Field(car, "name"), count |-> entry.count]
    ELSE topCar

RECURSIVE TopCar(_, _)
TopCar(entries, carsById) ==
    IF entries = <<>> THEN Null
    ELSE TopCarStep(TopCar(SubSeq(entries, 1, Len(entries) - 1), carsById),
                    entries[Len(entries)],
                    MapLookup(carsById, entries[Len(entries)].carId))

\* runsWithBest: the runs with a best lap and a date, by date.
RunsWithBest(runs) ==
    SortByDate(SelectSeq(runs, LAMBDA r :
        /\ Field(r, "bestLapNum") # Null /\ Field(r, "bestLapNum") # NaN
        /\ Truthy(OrElse(Field(r, "eventDate"), Field(r, "createdAt")))))

\* One turn of the loop over runsWithBest.
BestDeltaStep(bestDelta, prev, curr) ==
    IF /\ Field(curr, "bestLapNum").v - Field(prev, "bestLapNum").v < 0
       /\ (bestDelta = Null
             \/ Field(curr, "bestLapNum").v - Field(prev, "bestLapNum").v < bestDelta.delta.v)
    THEN [delta |-> Num(Field(curr, "bestLapNum").v - Field(prev, "bestLapNum").v),
          date |-> OrElse(Field(curr, "eventDate"), Field(curr, "createdAt"))]
    ELSE bestDelta

\* bestDelta after the turns 1..i of the loop.
RECURSIVE BestDelta(_, _)
BestDelta(runsWithBest, i) ==
    IF i < 2 \/ Len(runsWithBest) < 2 THEN Null
    ELSE BestDeltaStep(BestDelta(runsWithBest, i - 1), runsWithBest[i - 1], runsWithBest[i])

Cards(bestTrack, topCar, bestDelta) ==
    (IF bestTrack # Null
     THEN <<[title |-> "Best Track", value |-> bestTrack.name,
             avg |-> MeanLap(bestTrack.laps)]>>
     ELSE <<>>)
    \o (IF topCar # Null
        THEN <<[title |-> "Most-used Car", value |-> topCar.name, count |-> topCar.count]>>
        ELSE <<>>)
    \o (IF bestDelta # Null
        THEN <<[title |-> "Most-improved Day", value |-> bestDelta.date,
                delta |-> bestDelta.delta]>>
        ELSE <<>>)

\* filteredRuns is the array renderAnalyticsPage hands in (src/sw.js:4015).
buildInsightCards(filteredRuns, analyticsContext) ==
    IF filteredRuns = <<>> THEN <<>>
    ELSE Cards(BestTrack(TrackAgg(filteredRuns), analyticsContext.tracksById),
               TopCar(CarCounts(filteredRuns), analyticsContext.carsById),
               BestDelta(RunsWithBest(filteredRuns), Len(RunsWithBest(filteredRuns))))

(* The cards of bounded lists of enriched runs *)

MaxCardRuns == 3    \* runs handed to buildInsightCards

CarId3 == <<"c", "3">>

CardRun(car, track, best, avg, date, created) ==
    [carId |-> Str(car), trackId |-> track, bestLapNum |-> best, avgLapNum |-> avg,
     eventDate |-> date, createdAt |-> Str(IsoText(created, NoonMs))]

CardRunBodies ==
    {CardRun(CarId1, Str(TrackId1), Num(15500), Num(16000), Date1, 1),
     CardRun(CarId1, Str(TrackId1), Num(15100), Num(15600), Date2, 2),
     CardRun(CarId2, Str(TrackId2), Num(15300), Num(15800), Date2, 2),
     CardRun(CarId2, Str(TrackId2), Num(15900), Null, Date1, 1),
     CardRun(CarId1, Null, Null, Num(15000), Null, 1),
     CardRun(CarId2, Null, Num(15000), Num(15200), Null, 3),
     CardRun(CarId3, Str(TrackId9), Num(14000), Num(14500), Date2, 2)}

\* The cars and tracks of the stores: both named cars and tracks, a second
\* car and track without a name, or nothing.
CardContexts ==
    {[carsById |-> MapById(<<[id |-> Str(CarId1), name |-> NameA],
                             [id |-> Str(CarId2), name |-> NameB]>>),
      tracksById |-> MapById(<<[id |-> Str(TrackId1), name |-> NameA],
                               [id |-> Str(TrackId2), name |-> NameB]>>)],
     [carsById |-> MapById(<<[id |-> Str(CarId1), name |-> NameA],
                             [id |-> Str(CarId2), name |-> Str(<<>>)]>>),
      tracksById |-> MapById(<<[id |-> Str(TrackId1), name |-> NameA],
                               [id |-> Str(TrackId2), name |-> Str(<<>>)]>>)],
     [carsById |-> MapById(<<>>), tracksById |-> MapById(<<>>)]}

InitCards ==
    /\ CacheIdle
    /\ \E rl \in RunLists(CardRunBodies, MaxCardRuns), ctx \in CardContexts :
          fin = [runs |-> rl, analyticsContext |-> ctx]
    /\ fout = NotRun

buildCards ==
    /\ fout = NotRun
    /\ fout' = [cards |-> buildInsightCards(fin.runs, fin.analyticsContext)]
    /\ UNCHANGED <<fin, cacheVars>>

SpecCards == InitCards /\ [][buildCards]_vars

(* Claims about the cards, under SpecCards *)

AllRuns == 1..Len(fin.runs)

\* id has a record with a name in the map.
Named(map, id) == id \in DOMAIN map /\ Field(map[id], "name") # Str(<<>>)

\* The runs of track t that have an average lap, with their laps.
AvgLapsOn(t) ==
    {p \in {<<i, Field(fin.runs[i], "avgLapNum")>> :
               i \in {k \in AllRuns : Field(fin.runs[k], "trackId") = t}} : p[2] # Null}

\* The named tracks with an average lap.
RatedTracks ==
    {t \in {Field(fin.runs[i], "trackId") : i \in AllRuns} \ {Null} :
        AvgLapsOn(t) # {} /\ Named(fin.analyticsContext.tracksById, t)}

\* The mean of the average laps on t is at most the mean on u.
MeanAtMost(t, u) ==
    SumOfLaps(AvgLapsOn(t)) * Cardinality(AvgLapsOn(u))
      <= SumOfLaps(AvgLapsOn(u)) * Cardinality(AvgLapsOn(t))

RunsOfCar(c) == {i \in AllRuns : Field(fin.runs[i], "carId") = c}

NamedCars ==
    {c \in {Field(fin.runs[i], "carId") : i \in AllRuns} :
        Named(fin.analyticsContext.carsById, c)}

\* The runs with a best lap, and the pairs of them that follow each other
\* in the order of their dates.
Timed == {i \in AllRuns : Field(fin.runs[i], "bestLapNum") # Null}

Successive ==
    {p \in Timed \X Timed :
        /\ Before(p[1], p[2])
        /\ ~ \E k \in Timed : Before(p[1], k) /\ Before(k, p[2])}

Improvements == {p \in Successive : LapDelta(p) < 0}

CardsTitled(title) == {k \in 1..Len(fout.cards) : fout.cards[k].title = title}

\* C24: buildInsightCards returns at most three cards: a 'Best Track' card
\* naming the named track with the lowest mean avgLapNum among the tracks
\* with a valid avgLap run; a 'Most-used Car' card naming the named car with
\* the most runs; a 'Most-improved Day' card for the pair of runs, adjacent
\* in the order of the dates of all runs with a valid bestLapNum, with the
\* most negative bestLapNum delta. A card is left out exactly when there is
\* nothing to show on it: no valid avgLap on a named track, no named car, no
\* negative delta.
C24_InsightCards ==
    fout # NotRun =>
        /\ Len(fout.cards) <= 3
        /\ \A k \in 1..Len(fout.cards) :
              /\ fout.cards[k].title \in {"Best Track", "Most-used Car", "Most-improved Day"}
              /\ CardsTitled(fout.cards[k].title) = {k}
        /\ CardsTitled("Best Track") = {} <=> RatedTracks = {}
        /\ \A k \in CardsTitled("Best Track") :
              \E t \in RatedTracks :
                  /\ fout.cards[k].value = Field(fin.analyticsContext.tracksById[t], "name")
                  /\ IsMeanOf(fout.cards[k].avg, AvgLapsOn(t))
                  /\ \A u \in RatedTracks : MeanAtMost(t, u)
        /\ CardsTitled("Most-used Car") = {} <=> NamedCars = {}
        /\ \A k \in CardsTitled("Most-used Car") :
              \E c \in NamedCars :
                  /\ fout.cards[k].value = Field(fin.analyticsContext.carsById[c], "name")
                  /\ fout.cards[k].count = Cardinality(RunsOfCar(c))
                  /\ \A d \in NamedCars : Cardinality(RunsOfCar(d)) <= Cardinality(RunsOfCar(c))
        /\ CardsTitled("Most-improved Day") = {} <=> Improvements = {}
        /\ \A k \in CardsTitled("Most-improved Day") :
              \E p \in Improvements :
                  /\ fout.cards[k].delta = Num(LapDelta(p))
                  /\ fout.cards[k].value = WhenText(p[2])
                  /\ \A q \in Improvements : LapDelta(p) <= LapDelta(q)

\* Three cards: the best track is not the track of the first run, the
\* most-used car is not the car of the first run, and the greatest
\* improvement is not the first.
C24_Witness ==
    /\ fout # NotRun
    /\ Len(fout.cards) = 3
    /\ Field(fin.runs[1], "trackId") \in RatedTracks
    /\ fout.cards[1].value # Field(fin.analyticsContext.tracksById[Field(fin.runs[1], "trackId")], "name")
    /\ Field(fin.runs[1], "carId") \in NamedCars
    /\ fout.cards[2].value # Field(fin.analyticsContext.carsById[Field(fin.runs[1], "carId")], "name")
    /\ \E p \in Improvements : fout.cards[3].delta.v < LapDelta(p)

\* Runs, and no card.
C24_WitnessNoCard ==
    /\ fout # NotRun
    /\ fin.runs # <<>>
    /\ fout.cards = <<>>

\* A track without a name has the lowest mean, and another track is named.
C24_WitnessNamelessTrack ==
    /\ fout # NotRun
    /\ CardsTitled("Best Track") # {}
    /\ \E t \in RatedTracks, i \in AllRuns :
          /\ Field(fin.runs[i], "avgLapNum") # Null
          /\ Field(fin.runs[i], "trackId") # Null
          /\ Field(fin.runs[i], "trackId") \notin RatedTracks
          /\ \A p \in AvgLapsOn(t) : Field(fin.runs[i], "avgLapNum").v < p[2].v

-----------------------------------------------------------------------------
(* The form handlers and the backup import with the time stamps of their    *)
(* records: what a sequence of submissions leaves in the stores. The clock  *)
(* advances with each write, so each write has its own instant. fin holds   *)
(* the last submission and fout what became of it.                          *)

MaxStoreWrites == 2 \* writes of the form handlers and the import in one run

\* new Date().toISOString() at the time of a write
NowText == Str(IsoText(1 + writes, NoonMs))

\* updatedAt is set on every submission, createdAt only when the hidden id
\* field is empty.
Stamped(data, id, now) ==
    [k \in DOMAIN data \cup {"updatedAt"} \cup (IF Truthy(id) THEN {} ELSE {"createdAt"}) |->
        IF k \in {"updatedAt", "createdAt"} THEN now ELSE data[k]]

\* await put(store, data) of a submit handler, with the record of the
\* submission
Submit(store, id, data) ==
    /\ writes < MaxStoreWrites
    /\ db' = put(db, store, Stamped(data, id, NowText))
    /\ writes' = writes + 1
    /\ fin' = [store |-> store, id |-> id, data |-> data]
    /\ fout' = [saved |-> TRUE]
    /\ UNCHANGED <<analyticsDataCache, cacheAt, pc, seen, returned, maint>>

\* handleCarSubmit, with its time stamps
submitCarForm ==
    \E id \in FormIds("cars"), form \in CarForms, fresh \in FreshKeys("cars") \cup {Undefined} :
        /\ Truthy(id) \/ fresh # Undefined
        /\ Submit("cars", id, WithId(form, IdFor("cars", id, fresh)))

\* handleTrackSubmit, with its time stamps
submitTrackForm ==
    \E id \in FormIds("tracks"), form \in TrackForms, fresh \in FreshKeys("tracks") \cup {Undefined} :
        /\ Truthy(id) \/ fresh # Undefined
        /\ Submit("tracks", id, WithId(form, IdFor("tracks", id, fresh)))

\* handleEventSubmit, with its time stamps
submitEventForm ==
    \E id \in FormIds("events"), form \in EventForms, fresh \in FreshKeys("events") \cup {Undefined} :
        /\ Truthy(id) \/ fresh # Undefined
        /\ Submit("events", id, WithId(form, IdFor("events", id, fresh)))

\* handleSetupSubmit, with its time stamps
submitSetupForm ==
    \E id \in FormIds("setups"), form \in SetupForms, fresh \in FreshKeys("setups") \cup {Undefined} :
        /\ Truthy(id) \/ fresh # Undefined
        /\ Submit("setups", id, SetupRecord(form, IdFor("setups", id, fresh)))

\* parseInt on the value of a number field: the leading digits, NaN without
\* one.
ParseInt(s) ==
    IF PrefixLen(s, IsDigit) = 0 THEN NaN
    ELSE Num(DigitsVal(SubSeq(s, 1, PrefixLen(s, IsDigit))) * Scale)

\* value ? parseInt(value) : null
TotalLapsOf(value) == IF value = <<>> THEN Null ELSE ParseInt(value)

\* The time and total laps fields as typed.
TimeFields == {<<"1", "9">>, <<" ", "1", ":", "0", "5">>, <<"x">>, <<>>}
LapsFields == {<<>>, <<"0">>, <<"2">>}

\* runLogData of handleRunLogSubmit
RunLogRecord(id, timeSeconds, totalLaps) ==
    [id |-> id, eventId |-> Str(EventId1), carId |-> Str(CarId1),
     sessionType |-> Str(<<"p", "r", "a", "c", "t", "i", "c", "e">>),
     setupId |-> OrElse(Str(<<>>), Null),   \* no setup chosen
     bestLap |-> Str(Trim(<<" ", "9", ".", "5">>)),
     avgLap |-> Str(QuotientToFixed3(timeSeconds.v, totalLaps.v \div Scale)),
     totalLaps |-> totalLaps, time |-> timeSeconds,
     position |-> Str(<<>>), notes |-> Str(<<>>)]

\* The validation of handleRunLogSubmit fails: a toast, and nothing else.
RunLogRejected(id, time, laps) ==
    /\ fin' = [store |-> "runLogs", id |-> id, time |-> time, laps |-> laps]
    /\ fout' = [saved |-> FALSE]
    /\ UNCHANGED cacheVars

\* handleRunLogSubmit, from the fields as typed
submitRunLogForm ==
    \E id \in FormIds("runLogs"), time \in TimeFields, laps \in LapsFields,
       fresh \in FreshKeys("runLogs") \cup {Undefined} :
        /\ Truthy(id) \/ fresh # Undefined
        /\ fin # [store |-> "runLogs", id |-> id, time |-> time, laps |-> laps]
        /\ IF parseTimeInputToSeconds(Str(Trim(time))) = Null
           THEN RunLogRejected(id, time, laps)
           ELSE IF ~IsNum(TotalLapsOf(laps)) \/ TotalLapsOf(laps).v <= 0
           THEN RunLogRejected(id, time, laps)
           ELSE /\ Submit("runLogs", id,
                          RunLogRecord(IdFor("runLogs", id, fresh),
                                       parseTimeInputToSeconds(Str(Trim(time))),
                                       TotalLapsOf(laps)))

\* The backup files: one written by the export of a store with one car and
\* one run log, and one whose run log has no time, a text for its laps and
\* another average lap.
Backups ==
    {[cars |-> <<Stamped(WithId([name |-> NameA], Str(CarId1)), Str(<<>>), Str(IsoText(1, 0)))>>,
      runLogs |-> <<Stamped(RunLogRecord(Str(RunId1), Num(19 * Scale), Num(2 * Scale)),
                            Str(<<>>), Str(IsoText(1, 0)))>>],
     [runLogs |-> <<[id |-> Str(RunId1), eventId |-> Str(EventId1), carId |-> Str(CarId1),
                     bestLap |-> Str(<<"9", ".", "5">>),
                     avgLap |-> Str(<<"9", ".", "7">>),
                     totalLaps |-> Str(<<"2">>)]>>]}

\* for (const item of items) await put(store, item)
RECURSIVE PutAll(_, _, _)
PutAll(database, store, items) ==
    IF items = <<>> THEN database
    ELSE put(PutAll(database, store, SubSeq(items, 1, Len(items) - 1)), store,
             items[Len(items)])

\* The five loops of handleImportBackup from the s-th store on, in the order
\* of the code; a store the backup has no array for is passed over.
ImportOrder == <<"cars", "setups", "tracks", "events", "runLogs">>

RECURSIVE ImportFrom(_, _, _)
ImportFrom(database, backup, s) ==
    IF s > Len(ImportOrder) THEN database
    ELSE ImportFrom(IF ImportOrder[s] \in DOMAIN backup
                    THEN PutAll(database, ImportOrder[s], backup[ImportOrder[s]])
                    ELSE database,
                    backup, s + 1)

\* handleImportBackup on a well-formed file, confirmed
handleImportBackup ==
    \E backup \in Backups :
        /\ writes < MaxStoreWrites
        /\ db' = ImportFrom(db, backup, 1)
        /\ writes' = writes + 1
        /\ fin' = [store |-> "backup", data |-> backup]
        /\ fout' = [saved |-> TRUE]
        /\ UNCHANGED <<analyticsDataCache, cacheAt, pc, seen, returned, maint>>

\* handleImportBackup, the confirmation declined
importCancelled ==
    \E backup \in Backups :
        /\ fin # [store |-> "backup", data |-> backup, cancelled |-> TRUE]
        /\ fin' = [store |-> "backup", data |-> backup, cancelled |-> TRUE]
        /\ fout' = [saved |-> FALSE]
        /\ UNCHANGED cacheVars

InitStores ==
    /\ CacheIdle
    /\ fin = NotRun
    /\ fout = NotRun

NextStores ==
    \/ submitCarForm
    \/ submitTrackForm
    \/ submitEventForm
    \/ submitSetupForm
    \/ submitRunLogForm
    \/ handleImportBackup
    \/ importCancelled

SpecStores == InitStores /\ [][NextStores]_vars

(* Claims about the stored records, under SpecStores *)

\* text shows a / n (a in thousandths) with three decimals.
IsThreeDecimalsOf(text, a, n) ==
    /\ IsStr(text)
    /\ Len(text.v) >= 5
    /\ text.v[Len(text.v) - 3] = "."
    /\ IsNum(ParseFloat(text.v))
    /\ 2 * Abs(ParseFloat(text.v).v * n - a) <= n

\* A run log whose avgLap is time / totalLaps with three decimals, for a
\* number of seconds and a positive whole number of laps.
ConsistentRunLog(r) ==
    /\ IsNum(Field(r, "time"))
    /\ IsNum(Field(r, "totalLaps"))
    /\ Field(r, "totalLaps").v > 0
    /\ Field(r, "totalLaps").v % Scale = 0
    /\ IsThreeDecimalsOf(Field(r, "avgLap"), Field(r, "time").v,
                         Field(r, "totalLaps").v \div Scale)

\* The time field holds seconds, MM:SS or HH:MM:SS.
TimeFieldParses(time) == \E parts \in 1..3 : InGrammar(Trim(time), parts)

\* The laps field holds a positive whole number.
LapsFieldIsPositive(laps) == laps # <<>> /\ AllDigits(laps) /\ DigitsVal(laps) > 0

\* C25: every run log in the runLogs store has avgLap equal to
\* time / totalLaps with three decimals, totalLaps a positive integer and
\* time a number of seconds.
C25_StoredRunLogsConsistent ==
    \A id \in DOMAIN db["runLogs"] : ConsistentRunLog(db["runLogs"][id])

\* The run log a submission of the form writes is consistent.
C25_FormWritesConsistent ==
    [][fin'.store = "runLogs" /\ fout'.saved
         => ConsistentRunLog(db'["runLogs"][fin'.data.id])]_vars

\* A submission of the form whose time does not parse, or whose laps are no
\* positive whole number, writes nothing.
C25_InvalidFormWritesNothing ==
    [][fin'.store = "runLogs"
         => IF "time" \in DOMAIN fin'
            THEN /\ ~(TimeFieldParses(fin'.time) /\ LapsFieldIsPositive(fin'.laps))
                 /\ db' = db
            ELSE db' # db]_vars

C25_WitnessFormSaved ==
    /\ fin # NotRun
    /\ fin.store = "runLogs"
    /\ fout.saved
    /\ db["runLogs"][fin.data.id].avgLap = Str(<<"3", "2", ".", "5", "0", "0">>)

\* C26: a submission of a form leaves the createdAt of every record that
\* was in its store as it was: after creates and edits of a run log (a car,
\* a setup, an event, a track) the stored record still has the createdAt of
\* its creation.
C26_EditKeepsCreatedAt ==
    [][fin'.store \in StoreNames /\ fout'.saved
         => \A id \in DOMAIN db[fin'.store] :
               Field(db'[fin'.store][id], "createdAt") = Field(db[fin'.store][id], "createdAt")]_vars

\* A submission with an empty id field stores a record whose createdAt is
\* the instant of the submission.
C26_CreateSetsCreatedAt ==
    [][fin'.store \in StoreNames /\ fout'.saved /\ ~Truthy(fin'.id)
         => /\ fin'.data.id \notin DOMAIN db[fin'.store]
            /\ Field(db'[fin'.store][fin'.data.id], "createdAt") = NowText]_vars

\* An edited run log is in the store without a createdAt, and the date
\* filter turns it down for every range.
C26_WitnessEditedRunLog ==
    /\ fin # NotRun
    /\ fin.store = "runLogs"
    /\ fout.saved
    /\ Truthy(fin.id)
    /\ Field(db["runLogs"][fin.id], "createdAt") = Undefined
    /\ \A tz \in TimeZones :
          ~withinDateRange(Field(db["runLogs"][fin.id], "createdAt"), Date1, Null, tz)

-----------------------------------------------------------------------------
(* The outputs of one aggregateRuns call against each other, under          *)
(* SpecSummary                                                              *)

\* s is t with some elements left out, the others in their order.
IsSubsequence(s, t) ==
    \E f \in [1..Len(s) -> 1..Len(t)] :
        /\ \A i \in 1..Len(s) : s[i] = t[f[i]]
        /\ \A i \in 1..(Len(s) - 1) : f[i] < f[i + 1]

RECURSIVE RowRunCount(_)
RowRunCount(rows) ==
    IF rows = <<>> THEN 0 ELSE rows[1].runCount.v + RowRunCount(Tail(rows))

\* x is null, or a number not below the least best lap of the KPIs.
NotBelowBest(x) ==
    x # Null => fout.kpis.bestLapMin # Null /\ x.v >= fout.kpis.bestLapMin.v

\* C28: the outputs of one aggregateRuns call agree: kpis.runCount is the
\* length of filteredRuns; filteredRuns is a subsequence of runs in their
\* order; no trackId is twice in byTrack; the runCounts of byTrack add up to
\* at most kpis.runCount, and to exactly that iff every filtered run
\* resolves to a stored event and track; kpis.eventCount is at most
\* kpis.runCount; and every byTrack bestLapMin and trendSeries bestLap that
\* is not null is at least kpis.bestLapMin.
C28_OutputsAgree ==
    fout # NotRun =>
        /\ fout.kpis.runCount = Num(Len(fout.filteredRuns) * Scale)
        /\ IsSubsequence(fout.filteredRuns, fin.runs)
        /\ \A i, j \in 1..Len(fout.byTrack) :
              fout.byTrack[i].trackId = fout.byTrack[j].trackId => i = j
        /\ RowRunCount(fout.byTrack) <= fout.kpis.runCount.v
        /\ RowRunCount(fout.byTrack) = fout.kpis.runCount.v
              <=> \A k \in AllKept : TracksOfRun(Kept[k]) # {}
        /\ fout.kpis.eventCount.v <= fout.kpis.runCount.v
        /\ \A i \in 1..Len(fout.byTrack) : NotBelowBest(fout.byTrack[i].bestLapMin)
        /\ \A i \in 1..Len(fout.trendSeries) : NotBelowBest(fout.trendSeries[i].bestLap)

\* A run was filtered out, and the run that was kept resolves to no track.
C28_Witness ==
    /\ fout # NotRun
    /\ Len(fout.filteredRuns) < Len(fin.runs)
    /\ fout.filteredRuns # <<>>
    /\ RowRunCount(fout.byTrack) < fout.kpis.runCount.v

\* Both runs are kept and counted in byTrack, and a trend point lies above
\* the least best lap.
C28_WitnessAllResolved ==
    /\ fout # NotRun
    /\ Len(fout.filteredRuns) = 2
    /\ RowRunCount(fout.byTrack) = fout.kpis.runCount.v
    /\ \E i \in 1..Len(fout.trendSeries) :
          /\ fout.trendSeries[i].bestLap # Null
          /\ fout.trendSeries[i].bestLap.v > fout.kpis.bestLapMin.v

-----------------------------------------------------------------------------
(* Opening the database (src/db.js dbInit, resetDatabase). Two callers may  *)
(* have a dbInit call under way at the same time, as the five getAll calls  *)
(* of loadAnalyticsData do. fin holds the module variable dbInstance and,   *)
(* for each caller, where its call stands; fout holds the last event.       *)
(* Connections are numbered in the order they were opened; dbInstance null  *)
(* is written NoInstance.                                                   *)

maxRetries == 5

MaxDbCalls == 2     \* dbInit calls of one caller
MaxDbResets == 1    \* resetDatabase calls

DbCallers == {"bootstrap", "getAll"}

NoInstance == [t |-> "null"]
Instance(n) == [t |-> "IDBDatabase", n |-> n]

IdleCall == [at |-> "idle", retryCount |-> 0, opens |-> 0, result |-> Undefined, calls |-> 0]

InitDb ==
    /\ CacheIdle
    /\ fin = [dbInstance |-> NoInstance, connections |-> 0, resets |-> 0,
              call |-> [c \in DbCallers |-> IdleCall]]
    /\ fout = NotRun

\* One step of the call of caller c.
DbStep(c, dbInstance, connections, call, event) ==
    /\ fin' = [fin EXCEPT !.dbInstance = dbInstance, !.connections = connections,
                          !.call[c] = call]
    /\ fout' = [caller |-> c, event |-> event]
    /\ UNCHANGED cacheVars

\* dbInit() up to its return: the instance at hand, or the first
\* indexedDB.open of a new promise.
dbInit(c) ==
    /\ fin.call[c].at \in {"idle", "resolved", "rejected"}
    /\ fin.call[c].calls < MaxDbCalls
    /\ IF fin.dbInstance # NoInstance
       THEN DbStep(c, fin.dbInstance, fin.connections,
                   [at |-> "resolved", retryCount |-> 0, opens |-> 0,
                    result |-> fin.dbInstance, calls |-> fin.call[c].calls + 1],
                   "return dbInstance")
       ELSE DbStep(c, fin.dbInstance, fin.connections,
                   [at |-> "open", retryCount |-> 0, opens |-> 1,
                    result |-> Undefined, calls |-> fin.call[c].calls + 1],
                   "open")

\* request.onsuccess
openSuccess(c) ==
    /\ fin.call[c].at = "open"
    /\ DbStep(c, Instance(fin.connections + 1), fin.connections + 1,
              [fin.call[c] EXCEPT !.at = "resolved",
                                  !.result = Instance(fin.connections + 1)],
              "success")

\* The body of request.onerror for an error of this name.
OpenError(c, name) ==
    IF name = "InvalidStateError" /\ fin.call[c].retryCount < maxRetries
    THEN DbStep(c, fin.dbInstance, fin.connections,
                [fin.call[c] EXCEPT !.at = "setTimeout", !.retryCount = @ + 1], name)
    ELSE DbStep(c, fin.dbInstance, fin.connections,
                [fin.call[c] EXCEPT !.at = "rejected"], name)

\* request.onerror
openError(c) ==
    /\ fin.call[c].at = "open"
    /\ \E name \in {"InvalidStateError", "UnknownError"} : OpenError(c, name)

\* setTimeout(() => openDb(resolve, reject), retryDelay) fires
retryOpen(c) ==
    /\ fin.call[c].at = "setTimeout"
    /\ DbStep(c, fin.dbInstance, fin.connections,
              [fin.call[c] EXCEPT !.at = "open", !.opens = @ + 1], "open")

\* resetDatabase() up to its promise: the instance at hand is closed and
\* dbInstance cleared.
resetDatabase ==
    /\ fin.resets < MaxDbResets
    /\ fin' = [fin EXCEPT !.dbInstance = NoInstance, !.resets = @ + 1]
    /\ fout' = [caller |-> "handleResetApp", event |-> "resetDatabase"]
    /\ UNCHANGED cacheVars

NextDb ==
    \/ \E c \in DbCallers : dbInit(c)
    \/ \E c \in DbCallers : openSuccess(c)
    \/ \E c \in DbCallers : openError(c)
    \/ \E c \in DbCallers : retryOpen(c)
    \/ resetDatabase

SpecDb == InitDb /\ [][NextDb]_vars

\* Every open request fires success or error, and every timer fires.
SpecDbFair ==
    /\ SpecDb
    /\ \A c \in DbCallers : WF_vars(openSuccess(c) \/ openError(c))
    /\ \A c \in DbCallers : WF_vars(retryOpen(c))

\* One dbInit call opens the database at most 6 times.
C29_AtMostSixOpens ==
    \A c \in DbCallers : fin.call[c].opens <= maxRetries + 1

\* An open is tried again only after an InvalidStateError, and any other
\* error rejects the call at once.
C29_RetryOnlyOnInvalidState ==
    [][\A c \in DbCallers :
          /\ fin'.call[c].at = "setTimeout" /\ fin.call[c].at # "setTimeout"
                => fout'.event = "InvalidStateError"
          /\ fin.call[c].at = "open" /\ fout' = [caller |-> c, event |-> "UnknownError"]
                => fin'.call[c].at = "rejected"]_vars

\* A call that has begun to open the database resolves or rejects.
C29_CallsEnd ==
    \A c \in DbCallers :
        (fin.call[c].at \in {"open", "setTimeout"}) ~> (fin.call[c].at \in {"resolved", "rejected"})

\* A call begun while dbInstance is set returns it without opening.
C29_LaterCallsDoNotOpen ==
    [][\A c \in DbCallers :
          fin.dbInstance # NoInstance /\ fin'.call[c].calls # fin.call[c].calls
             => /\ fin'.call[c].at = "resolved"
                /\ fin'.call[c].result = fin.dbInstance
                /\ fin'.call[c].opens = 0]_vars

\* C29: dbInit ends after at most 6 opens of the database (one and up to
\* five more after an InvalidStateError, any other error rejecting at
\* once); and once a call has resolved, the calls after it return the same
\* instance without another open, until resetDatabase clears it: the
\* instance in dbInstance is replaced by nothing but resetDatabase.
C29_InstanceKeptUntilReset ==
    [][fin.dbInstance # NoInstance /\ fin'.dbInstance # fin.dbInstance
          => fout'.event = "resetDatabase"]_vars

\* A call was rejected after six opens.
C29_WitnessSixOpens ==
    \E c \in DbCallers : fin.call[c].opens = maxRetries + 1 /\ fin.call[c].at = "rejected"

\* Two calls have resolved with different instances, and no resetDatabase
\* was called.
C29_WitnessTwoInstances ==
    /\ fin.resets = 0
    /\ \A c \in DbCallers : fin.call[c].at = "resolved"
    /\ fin.call["bootstrap"].result # fin.call["getAll"].result

-----------------------------------------------------------------------------
(* The service worker (src/sw.js, lines 1-106). Texts are kept as sequences *)
(* of pieces ("./", "/", a file or folder name), which is as fine as        *)
(* endsWith and replace need. fin holds the worker's phase, the caches of   *)
(* the origin (name -> path -> status of the stored response), the request  *)
(* whose network fetch is under way, and the cache writes that were started *)
(* and have not finished; fout holds the last answer.                       *)

CACHE_NAME == "rc-program-v2"
OldCacheName == "rc-program-v1"

APP_SHELL_ASSETS ==
    <<<<"./", "index.html">>, <<"./", "styles.css">>, <<"./", "app.js">>, <<"./", "db.js">>,
      <<"./", "manifest.webmanifest">>, <<"./", "vendor", "/", "chart.umd.min.js">>>>

MaxFetches == 3     \* fetch events in one run

\* asset.replace('./', ''): the first './' is taken out.
StripDotSlash(asset) ==
    IF \E i \in 1..Len(asset) : asset[i] = "./"
    THEN LET i == CHOOSE k \in 1..Len(asset) :
                      asset[k] = "./" /\ \A j \in 1..(k - 1) : asset[j] # "./"
         IN SubSeq(asset, 1, i - 1) \o SubSeq(asset, i + 1, Len(asset))
    ELSE asset

\* path.endsWith(suffix)
EndsWith(path, suffix) ==
    /\ Len(suffix) <= Len(path)
    /\ SubSeq(path, Len(path) - Len(suffix) + 1, Len(path)) = suffix

\* isAppShellAsset, on the pathname of the URL
isAppShellAsset(path) ==
    \E i \in 1..Len(APP_SHELL_ASSETS) : EndsWith(path, StripDotSlash(APP_SHELL_ASSETS[i]))

\* The URLs the assets are added under at install.
AssetPaths == {<<"/">> \o StripDotSlash(APP_SHELL_ASSETS[i]) : i \in 1..Len(APP_SHELL_ASSETS)}

\* The requests of the page: two of the assets, a file whose name ends
\* like an asset (/myapp.js), the sample backup and the root.
RequestPaths ==
    {<<"/", "index.html">>, <<"/", "vendor", "/", "chart.umd.min.js">>,
     <<"/", "my", "app.js">>, <<"/", "sample-backup.json">>, <<"/">>}

\* The statuses of the responses of the network.
Statuses == {200, 404}

NoCache == [p \in {} |-> 200]

\* No network request is under way.
NoRequest == <<>>

\* caches.match(request): the first cache that has the path answers.
CachesMatch(caches, path) ==
    IF \E n \in DOMAIN caches : path \in DOMAIN caches[n]
    THEN [status |-> caches[CHOOSE n \in DOMAIN caches : path \in DOMAIN caches[n]][path]]
    ELSE Undefined

\* caches.open(name).then(cache => cache.put(request, response))
CachePut(caches, name, path, status) ==
    [n \in DOMAIN caches \cup {name} |->
        IF n = name
        THEN [p \in (IF n \in DOMAIN caches THEN DOMAIN caches[n] ELSE {}) \cup {path} |->
                 IF p = path THEN status ELSE caches[n][p]]
        ELSE caches[n]]

\* Mutant: every response is stored.
IsCacheable_anyStatus(status) == TRUE

\* response && response.status === 200
IsCacheable(status) == status = 200

InitWorker ==
    /\ CacheIdle
    /\ \E old \in {NoCache, [p \in {<<"/", "index.html">>} |-> 200]} :
          fin = [phase |-> "parsed",
                 caches |-> [n \in {OldCacheName} |-> old],
                 request |-> NoRequest, puts |-> {}, fetches |-> 0]
    /\ fout = NotRun

WorkerStep(next, answer) ==
    /\ fin' = next
    /\ fout' = answer
    /\ UNCHANGED cacheVars

\* The install listener: cache.addAll stores every asset, or fails as a
\* whole and the worker is discarded.
install ==
    /\ fin.phase = "parsed"
    /\ \/ WorkerStep([fin EXCEPT !.phase = "installed",
                                 !.caches = [n \in DOMAIN fin.caches \cup {CACHE_NAME} |->
                                                IF n = CACHE_NAME THEN [p \in AssetPaths |-> 200]
                                                ELSE fin.caches[n]]],
                     [event |-> "install"])
       \/ WorkerStep([fin EXCEPT !.phase = "redundant"], [event |-> "install failed"])

\* The activate listener: every cache with another name is deleted.
activate ==
    /\ fin.phase = "installed"
    /\ WorkerStep([fin EXCEPT !.phase = "activated",
                              !.caches = [n \in {m \in DOMAIN fin.caches : m = CACHE_NAME} |->
                                             fin.caches[n]]],
                  [event |-> "activate"])

\* network tells what became of the network request: "none" when there was
\* none, "ok" when it resolved, "failed" when it rejected.
Answer(path, network, from, status) ==
    [event |-> "fetch", path |-> path, network |-> network, from |-> from, status |-> status]

\* The fetch listener up to its first network request: an app-shell asset
\* is looked up in the caches first.
fetchEvent ==
    \E path \in RequestPaths :
        /\ fin.phase = "activated"
        /\ fin.request = NoRequest
        /\ fin.fetches < MaxFetches
        /\ IF isAppShellAsset(path) /\ CachesMatch(fin.caches, path) # Undefined
           THEN WorkerStep([fin EXCEPT !.fetches = @ + 1],
                           Answer(path, "none", "cache", CachesMatch(fin.caches, path).status))
           ELSE WorkerStep([fin EXCEPT !.fetches = @ + 1, !.request = path],
                           Answer(path, "asked", "pending", 0))

\* fetch(request) resolves: the response is the answer, and the write of a
\* cacheable one is started.
networkResponse ==
    \E status \in Statuses :
        /\ fin.request # NoRequest
        /\ WorkerStep([fin EXCEPT !.request = NoRequest,
                                  !.puts = IF IsCacheable(status)
                                           THEN @ \cup {[path |-> fin.request, status |-> status]}
                                           ELSE @],
                      Answer(fin.request, "ok", "network", status))

\* fetch(request) rejects: for an app-shell asset the answer fails; for
\* another request the caches are asked.
networkFailure ==
    /\ fin.request # NoRequest
    /\ IF ~isAppShellAsset(fin.request) /\ CachesMatch(fin.caches, fin.request) # Undefined
       THEN WorkerStep([fin EXCEPT !.request = NoRequest],
                       Answer(fin.request, "failed", "cache", CachesMatch(fin.caches, fin.request).status))
       ELSE WorkerStep([fin EXCEPT !.request = NoRequest], Answer(fin.request, "failed", "error", 0))

\* A write that was started reaches the cache.
cachePut ==
    \E w \in fin.puts :
        WorkerStep([fin EXCEPT !.puts = @ \ {w},
                               !.caches = CachePut(@, CACHE_NAME, w.path, w.status)],
                   [event |-> "put", path |-> w.path])

NextWorker ==
    \/ install
    \/ activate
    \/ fetchEvent
    \/ networkResponse
    \/ networkFailure
    \/ cachePut

SpecWorker == InitWorker /\ [][NextWorker]_vars

\* A response for the path is stored in some cache.
Cached(caches, path) == \E n \in DOMAIN caches : path \in DOMAIN caches[n]

\* The step starts a fetch event.
EventStep == fin'.fetches = fin.fetches + 1

\* The step ends the network request of a fetch event.
NetworkEndStep == fin.request # NoRequest /\ fin'.request = NoRequest

\* The entries of the caches that the step wrote.
Written ==
    {e \in [name : DOMAIN fin'.caches, path : RequestPaths \cup AssetPaths] :
        /\ e.path \in DOMAIN fin'.caches[e.name]
        /\ \/ e.name \notin DOMAIN fin.caches
           \/ e.path \notin DOMAIN fin.caches[e.name]
           \/ fin.caches[e.name][e.path] # fin'.caches[e.name][e.path]}

CacheFirstStep ==
    EventStep /\ isAppShellAsset(fout'.path) =>
        IF Cached(fin.caches, fout'.path)
        THEN fout'.from = "cache" /\ fout'.network = "none" /\ fin'.request = NoRequest
        ELSE fout'.from = "pending" /\ fin'.request = fout'.path

CacheFirstEndStep ==
    NetworkEndStep /\ isAppShellAsset(fin.request) =>
        /\ fout'.path = fin.request
        /\ fout'.network = "ok" => fout'.from = "network"
        /\ fout'.network = "failed" => fout'.from = "error"

NetworkFirstStep ==
    EventStep /\ ~isAppShellAsset(fout'.path) =>
        fout'.from = "pending" /\ fin'.request = fout'.path

NetworkFirstEndStep ==
    NetworkEndStep /\ ~isAppShellAsset(fin.request) =>
        /\ fout'.path = fin.request
        /\ fout'.network = "ok" => fout'.from = "network"
        /\ fout'.network = "failed" =>
              fout'.from = (IF Cached(fin.caches, fin.request) THEN "cache" ELSE "error")

OnlyOkWritten ==
    fin.phase = "activated" =>
        /\ \A e \in Written : e.name = CACHE_NAME /\ fin'.caches[e.name][e.path] = 200
        /\ \A w \in fin'.puts : w.status = 200
        /\ NetworkEndStep /\ fout'.network = "ok" /\ fout'.status # 200 => fin'.puts = fin.puts

OnlyCurrentCache == fin'.phase = "activated" => DOMAIN fin'.caches \subseteq {CACHE_NAME}

\* C30: an app-shell asset is answered from the cache without a network
\* request when a cached response exists and otherwise from the network;
\* every other request is answered from the network when the network
\* succeeds, from the cache when the network fails, and fails only when
\* the network fails and nothing is cached; in both branches only responses
\* with status 200 are written to the cache; after activation only the
\* cache named CACHE_NAME remains.
C30_FetchStrategy ==
    [][/\ CacheFirstStep
       /\ CacheFirstEndStep
       /\ NetworkFirstStep
       /\ NetworkFirstEndStep
       /\ OnlyOkWritten
       /\ OnlyCurrentCache]_vars

\* Another request was answered from the cache after its network request
\* failed, and the old cache is gone.
C30_Witness ==
    /\ fout # NotRun
    /\ fout.event = "fetch"
    /\ ~isAppShellAsset(fout.path)
    /\ fout.network = "failed"
    /\ fout.from = "cache"
    /\ DOMAIN fin.caches = {CACHE_NAME}

\* An app-shell asset was answered from the cache without a network request.
C30_WitnessShellFromCache ==
    /\ fout # NotRun
    /\ fout.event = "fetch"
    /\ isAppShellAsset(fout.path)
    /\ fout.network = "none"
    /\ fout.from = "cache"

\* A response with status 404 was the answer and was not stored.
C30_WitnessNotStored ==
    /\ fout # NotRun
    /\ fout.event = "fetch"
    /\ fout.from = "network"
    /\ fout.status = 404
    /\ fin.puts = {}
    /\ ~Cached(fin.caches, fout.path)

\* An app-shell asset that was not cached failed with the network.
C30_WitnessShellFailed ==
    /\ fout # NotRun
    /\ fout.event = "fetch"
    /\ isAppShellAsset(fout.path)
    /\ fout.from = "error"

====
